---- MODULE Spec2Model ----
(***************************************************************************)
(* A state-machine model of railscompat.rubycore.marshal: the Ruby Marshal *)
(* 4.8 decoder (class Marshal, enum RubyType, dataclass ObjectWrapper).    *)
(*                                                                         *)
(* One decode call is modelled: the buffer `data`, the cursor `position`,  *)
(* the symbol table `symbols`, and the chain of pending Python calls as an *)
(* explicit `stack` of frames.  Python integers are unbounded, so decoded  *)
(* integers are kept as two's-complement byte strings with an explicit     *)
(* sign-extension byte (operators Tc...), on which the decoder's &, |, ~   *)
(* and << act exactly as they do on Python ints.                           *)
(***************************************************************************)
EXTENDS Integers, Sequences, FiniteSets, TLC

VARIABLES
  data,        \* self._data: the input buffer, a sequence of bytes 0..255
  position,    \* self._position
  symbols,     \* self._symbols: the texts of the symbols decoded so far
  stack,       \* the pending calls of _read_array/_read_hash/_read_ivar/...
  pc,          \* "load" | "read" | "ret" | "done" | "raised"
  retval,      \* the value the last finished _read call returned
  error,       \* the kind of the exception that ended the call ("" if none)
  dispatches,  \* history: the number of _read calls made so far
  spelled,     \* history: the texts of the SYMBOL tags decoded, in order
  lastBytes,   \* history: the last _read_bytes call and what it did
  calls,       \* the other Marshal instances alive: the calls of load that
               \* are not running now, each as the record of its fields
  verifier,    \* the MessageVerifier in use: self._secret, the last signed
               \* message generate returned and the last call made on it
  generator    \* the KeyGenerator in use: its fields, and the call of
               \* generate_key each thread is in, with its local variables

vars == <<data, position, symbols, stack, pc, retval, error, dispatches,
          spelled, lastBytes, calls, verifier, generator>>

-----------------------------------------------------------------------------
(* Bounds of the exploration.                                              *)

\* _read calls explored per decode
MaxDispatch == 10
\* nested productions explored per decode
MaxDepth == 3
\* bytes after the header in the exhaustive cursor family
MaxBody == 3
\* items in the arrays of the symbol family
MaxItems == 3
\* the round-trip family holds every integer in -MaxSmall..MaxSmall
MaxSmall == 130
\* bytes after the leading byte in the packed-fixnum family
MaxIntTail == 4

-----------------------------------------------------------------------------
(* RubyType: the tag enumeration and from_byte.                            *)

NONE == 0
HASH == 123
ARRAY == 91
SYMBOL == 58
SYMBOL_LINK == 59
IVARS == 73
STRING_ == 34
INT == 105
BIGNUM == 108
NIL == 48
TRUE_ == 84
FALSE_ == 70
USR_MARSHAL == 85
EXTENDED == 101
USERDEF == 117
LINK == 64
OBJECT == 111

\* from_byte: the member whose value is byte_val, "None" when there is none.
\* byte_val is the signed byte _read_byte returned.
FromByte(byte_val) ==
  CASE byte_val = NONE -> "NONE"
    [] byte_val = HASH -> "HASH"
    [] byte_val = ARRAY -> "ARRAY"
    [] byte_val = SYMBOL -> "SYMBOL"
    [] byte_val = SYMBOL_LINK -> "SYMBOL_LINK"
    [] byte_val = IVARS -> "IVARS"
    [] byte_val = STRING_ -> "STRING"
    [] byte_val = INT -> "INT"
    [] byte_val = BIGNUM -> "BIGNUM"
    [] byte_val = NIL -> "NIL"
    [] byte_val = TRUE_ -> "TRUE"
    [] byte_val = FALSE_ -> "FALSE"
    [] byte_val = USR_MARSHAL -> "USR_MARSHAL"
    [] byte_val = EXTENDED -> "EXTENDED"
    [] byte_val = USERDEF -> "USERDEF"
    [] byte_val = LINK -> "LINK"
    [] byte_val = OBJECT -> "OBJECT"
    [] OTHER -> "None"

-----------------------------------------------------------------------------
(* Python integers.  x = [d |-> <<d_0, ..., d_(k-1)>>, s |-> 0 or 255] is  *)
(* the integer whose two's-complement bytes are d_0 .. d_(k-1) (least      *)
(* significant first) followed by the byte s for ever:                     *)
(*   value = sum d_i * 256^i  -  (IF s = 255 THEN 256^k ELSE 0).           *)
(* The form is kept minimal (the last digit differs from s), so equal      *)
(* integers are equal records.                                             *)

RECURSIVE TcStrip(_, _)
TcStrip(d, s) ==
  IF d # <<>> /\ d[Len(d)] = s THEN TcStrip(SubSeq(d, 1, Len(d) - 1), s) ELSE d

TcNorm(d, s) == [d |-> TcStrip(d, s), s |-> s]

\* A machine-sized integer n as a Python int.
RECURSIVE TcOfInt(_)
TcOfInt(n) ==
  IF n = 0 THEN [d |-> <<>>, s |-> 0]
  ELSE IF n = -1 THEN [d |-> <<>>, s |-> 255]
  ELSE LET r == TcOfInt(n \div 256) IN [d |-> <<n % 256>> \o r.d, s |-> r.s]

\* Byte i (from 0) of the infinite two's-complement form.
TcDigit(x, i) == IF i < Len(x.d) THEN x.d[i + 1] ELSE x.s

RECURSIVE BitAnd(_, _)
BitAnd(a, b) ==
  IF a = 0 \/ b = 0 THEN 0
  ELSE (a % 2) * (b % 2) + 2 * BitAnd(a \div 2, b \div 2)

RECURSIVE BitOr(_, _)
BitOr(a, b) ==
  IF a = 0 THEN b
  ELSE IF b = 0 THEN a
  ELSE (IF a % 2 = 1 \/ b % 2 = 1 THEN 1 ELSE 0) + 2 * BitOr(a \div 2, b \div 2)

TcWidth(x, y) == IF Len(x.d) >= Len(y.d) THEN Len(x.d) ELSE Len(y.d)

\* x & y
TcAnd(x, y) ==
  TcNorm([i \in 1..TcWidth(x, y) |-> BitAnd(TcDigit(x, i - 1), TcDigit(y, i - 1))],
         BitAnd(x.s, y.s))

\* x | y
TcOr(x, y) ==
  TcNorm([i \in 1..TcWidth(x, y) |-> BitOr(TcDigit(x, i - 1), TcDigit(y, i - 1))],
         BitOr(x.s, y.s))

\* ~x
TcNot(x) == [d |-> [i \in 1..Len(x.d) |-> 255 - x.d[i]], s |-> 255 - x.s]

\* x << (8 * i): the decoder only ever shifts by whole bytes.
TcShl8(x, i) == TcNorm([j \in 1..i |-> 0] \o x.d, x.s)

\* x + y for x, y >= 0 (the only sums the decoder forms on decoded integers).
RECURSIVE TcAddDigits(_, _, _, _, _)
TcAddDigits(x, y, i, n, carry) ==
  IF i = n THEN (IF carry = 0 THEN <<>> ELSE <<carry>>)
  ELSE LET t == TcDigit(x, i) + TcDigit(y, i) + carry
       IN <<t % 256>> \o TcAddDigits(x, y, i + 1, n, t \div 256)

TcAdd(x, y) == TcNorm(TcAddDigits(x, y, 0, TcWidth(x, y), 0), 0)

TcIsNeg(x) == x.s = 255
TcIsZero(x) == x.d = <<>> /\ x.s = 0

\* value mod 2^24 and floor(value / 2^24): value = TcHi(x) * 2^24 + TcLo(x).
TcLo(x) == TcDigit(x, 0) + 256 * TcDigit(x, 1) + 65536 * TcDigit(x, 2)

RECURSIVE TcHiFrom(_, _)
TcHiFrom(x, i) ==
  IF i >= Len(x.d) THEN (IF x.s = 255 THEN -1 ELSE 0)
  ELSE x.d[i + 1] + 256 * TcHiFrom(x, i + 1)

TcHi(x) == TcHiFrom(x, 3)

\* |value| <= 2^24: safe to use in cursor arithmetic.
TcSmall(x) == Len(x.d) <= 3
\* value in -2^31 .. 2^31 - 1
TcFits32(x) == Len(x.d) <= 4 /\ (Len(x.d) = 4 => (x.d[4] >= 128 <=> x.s = 255))
\* The machine integer of x, for TcFits32(x).
TcToInt(x) == TcHi(x) * 16777216 + TcLo(x)

-----------------------------------------------------------------------------
(* The value model: what _read returns.  Python's None, bool, int, str,    *)
(* list, dict and ObjectWrapper.  A symbol is a Python str that starts     *)
(* with ':' (code point 58); text is a sequence of code points.            *)

NoneValue == [t |-> "none"]
BoolValue(b) == [t |-> "bool", b |-> b]
IntValue(x) == [t |-> "int", d |-> x.d, s |-> x.s]
StrValue(cps) == [t |-> "str", v |-> cps]
ListValue(items) == [t |-> "list", items |-> items]
DictValue(pairs) == [t |-> "dict", pairs |-> pairs]

\* ObjectWrapper.wrap(ruby_type, obj) followed by add(child) for each child.
Wrap(ruby_type, obj, children) ==
  [t |-> "wrap", ruby_type |-> ruby_type, obj |-> obj, children |-> children]

\* Python's hash(key) raises TypeError for list, dict and for ObjectWrapper
\* (a dataclass with eq and without frozen has __hash__ = None).
Unhashable(key) == key.t \in {"list", "dict", "wrap"}

\* Python's == and hash identify True with 1 and False with 0.
KeyNorm(key) ==
  IF key.t = "bool" THEN IntValue(TcOfInt(IF key.b THEN 1 ELSE 0)) ELSE key

KeyEq(a, b) == KeyNorm(a).t = KeyNorm(b).t /\ KeyNorm(a) = KeyNorm(b)

\* result[key] = value on an insertion-ordered dict held as <<key, value>>
\* pairs: an equal key keeps its place and its first key object.
DictSet(pairs, key, value) ==
  IF \E i \in 1..Len(pairs) : KeyEq(pairs[i][1], key)
  THEN [i \in 1..Len(pairs) |->
          IF KeyEq(pairs[i][1], key) THEN <<pairs[i][1], value>> ELSE pairs[i]]
  ELSE Append(pairs, <<key, value>>)

-----------------------------------------------------------------------------
(* bytes.decode('utf-8'), strict.                                          *)

IsCont(b) == b >= 128 /\ b <= 191

\* The number of bytes of the sequence that starts with b0 (0: invalid).
Utf8Need(b0) ==
  IF b0 < 128 THEN 1
  ELSE IF b0 >= 194 /\ b0 <= 223 THEN 2
  ELSE IF b0 >= 224 /\ b0 <= 239 THEN 3
  ELSE IF b0 >= 240 /\ b0 <= 244 THEN 4
  ELSE 0

\* The second byte's range is narrowed after E0, ED, F0 and F4 (no overlong
\* forms, no surrogates, nothing above U+10FFFF).
Utf8SecondOk(b0, b1) ==
  CASE b0 = 224 -> b1 >= 160 /\ b1 <= 191
    [] b0 = 237 -> b1 >= 128 /\ b1 <= 159
    [] b0 = 240 -> b1 >= 144 /\ b1 <= 191
    [] b0 = 244 -> b1 >= 128 /\ b1 <= 143
    [] OTHER -> IsCont(b1)

RECURSIVE Utf8Decode(_)
Utf8Decode(bs) ==
  IF bs = <<>> THEN [ok |-> TRUE, cps |-> <<>>]
  ELSE
    LET b0 == bs[1]
        n == Utf8Need(b0)
        good == /\ n > 0
                /\ Len(bs) >= n
                /\ n >= 2 => Utf8SecondOk(b0, bs[2])
                /\ \A i \in 3..n : IsCont(bs[i])
        cp == CASE n = 1 -> b0
                [] n = 2 -> (b0 - 192) * 64 + (bs[2] - 128)
                [] n = 3 -> (b0 - 224) * 4096 + (bs[2] - 128) * 64 + (bs[3] - 128)
                [] OTHER -> (b0 - 240) * 262144 + (bs[2] - 128) * 4096
                            + (bs[3] - 128) * 64 + (bs[4] - 128)
    IN IF ~good THEN [ok |-> FALSE, cps |-> <<>>]
       ELSE LET rest == Utf8Decode(SubSeq(bs, n + 1, Len(bs)))
            IN [ok |-> rest.ok, cps |-> IF rest.ok THEN <<cp>> \o rest.cps ELSE <<>>]

-----------------------------------------------------------------------------
(* The byte cursor.  Every read is a function of the position it starts at *)
(* and returns the position it leaves; `data` is never written.            *)

\* data[i] for a Python index i in -len .. len-1.
ByteAt(i) == data[(IF i < 0 THEN i + Len(data) ELSE i) + 1]

\* _read_byte
ReadByte(p) ==
  IF p >= Len(data)
  THEN [ok |-> FALSE, err |-> "UnexpectedEndOfInput", pos |-> p, b |-> 0]
  ELSE IF p < -Len(data)
  THEN [ok |-> FALSE, err |-> "IndexError", pos |-> p, b |-> 0]
  ELSE [ok |-> TRUE, err |-> "", pos |-> p + 1,
        b |-> IF ByteAt(p) < 128 THEN ByteAt(p) ELSE ByteAt(p) - 256]

\* A slice bound as Python resolves it against a sequence of length n.
PyBound(i, n) ==
  LET j == IF i < 0 THEN i + n ELSE i
  IN IF j < 0 THEN 0 ELSE IF j > n THEN n ELSE j

\* seq[a:b]
PySlice(seq, a, b) ==
  IF PyBound(a, Len(seq)) < PyBound(b, Len(seq))
  THEN SubSeq(seq, PyBound(a, Len(seq)) + 1, PyBound(b, Len(seq)))
  ELSE <<>>

NoBytesCall ==
  [called |-> FALSE, at |-> 0, count |-> 0, ok |-> FALSE, to |-> 0, out |-> <<>>]

\* _read_bytes(count), count a Python int.  A count above 2^24 exceeds any
\* modelled buffer; a count below -2^24 would take the position out of the
\* modelled range ("OutOfModel": such steps are not explored).
ReadBytes(p, count) ==
  IF ~TcSmall(count)
  THEN [ok |-> FALSE,
        err |-> IF TcIsNeg(count) THEN "OutOfModel" ELSE "UnexpectedEndOfInput",
        pos |-> p, out |-> <<>>, rb |-> NoBytesCall]
  ELSE
    LET n == TcToInt(count) IN
    IF p + n > Len(data)
    THEN [ok |-> FALSE, err |-> "UnexpectedEndOfInput", pos |-> p, out |-> <<>>,
          rb |-> [called |-> TRUE, at |-> p, count |-> n, ok |-> FALSE,
                  to |-> p, out |-> <<>>]]
    ELSE [ok |-> TRUE, err |-> "", pos |-> p + n, out |-> PySlice(data, p, p + n),
          rb |-> [called |-> TRUE, at |-> p, count |-> n, ok |-> TRUE,
                  to |-> p + n, out |-> PySlice(data, p, p + n)]]

-----------------------------------------------------------------------------
(* _read_int: the packed fixnum.                                           *)

\* for i in range(c): x |= unsigned_byte << (8 * i)
RECURSIVE ReadIntPositive(_, _, _, _)
ReadIntPositive(p, c, i, x) ==
  IF i >= c THEN [ok |-> TRUE, err |-> "", pos |-> p, v |-> x]
  ELSE
    LET r == ReadByte(p)
        unsigned_byte == IF r.b >= 0 THEN r.b ELSE r.b + 256
    IN IF ~r.ok THEN [ok |-> FALSE, err |-> r.err, pos |-> r.pos, v |-> x]
       ELSE ReadIntPositive(r.pos, c, i + 1,
                            TcOr(x, TcShl8(TcOfInt(unsigned_byte), i)))

\* The negative branch without the mask: x |= unsigned_byte << (8 * i).
RECURSIVE ReadIntNegativeUnmasked(_, _, _, _)
ReadIntNegativeUnmasked(p, n, i, x) ==
  IF i >= n THEN [ok |-> TRUE, err |-> "", pos |-> p, v |-> x]
  ELSE
    LET r == ReadByte(p)
        unsigned_byte == IF r.b >= 0 THEN r.b ELSE r.b + 256
    IN IF ~r.ok THEN [ok |-> FALSE, err |-> r.err, pos |-> r.pos, v |-> x]
       ELSE ReadIntNegativeUnmasked(r.pos, n, i + 1,
                                    TcOr(x, TcShl8(TcOfInt(unsigned_byte), i)))

\* for i in range(-c): a = ~(0xFF << (8 * i)); b = read_byte() << (8 * i);
\*                     x = (x & a) | b       (b is the signed byte)
RECURSIVE ReadIntNegative(_, _, _, _)
ReadIntNegative(p, n, i, x) ==
  IF i >= n THEN [ok |-> TRUE, err |-> "", pos |-> p, v |-> x]
  ELSE
    LET r == ReadByte(p)
        a == TcNot(TcShl8(TcOfInt(255), i))
        b == TcShl8(TcOfInt(r.b), i)
    IN IF ~r.ok THEN [ok |-> FALSE, err |-> r.err, pos |-> r.pos, v |-> x]
       ELSE ReadIntNegative(r.pos, n, i + 1, TcOr(TcAnd(x, a), b))

\* The immediate branches with an offset of 4.
ReadIntOffByOne(p) ==
  LET r == ReadByte(p)
      c == r.b
  IN IF ~r.ok THEN [ok |-> FALSE, err |-> r.err, pos |-> r.pos, v |-> TcOfInt(0)]
     ELSE IF c = 0 THEN [ok |-> TRUE, err |-> "", pos |-> r.pos, v |-> TcOfInt(0)]
     ELSE IF c > 4 THEN [ok |-> TRUE, err |-> "", pos |-> r.pos, v |-> TcOfInt(c - 4)]
     ELSE IF c < -4 THEN [ok |-> TRUE, err |-> "", pos |-> r.pos, v |-> TcOfInt(c + 4)]
     ELSE IF c > 0 THEN ReadIntPositive(r.pos, c, 0, TcOfInt(0))
     ELSE ReadIntNegative(r.pos, -c, 0, TcOfInt(-1))

\* _read_int
ReadInt(p) ==
  LET r == ReadByte(p)
      c == r.b
  IN IF ~r.ok THEN [ok |-> FALSE, err |-> r.err, pos |-> r.pos, v |-> TcOfInt(0)]
     ELSE IF c = 0 THEN [ok |-> TRUE, err |-> "", pos |-> r.pos, v |-> TcOfInt(0)]
     ELSE IF c > 4 THEN [ok |-> TRUE, err |-> "", pos |-> r.pos, v |-> TcOfInt(c - 5)]
     ELSE IF c < -4 THEN [ok |-> TRUE, err |-> "", pos |-> r.pos, v |-> TcOfInt(c + 5)]
     ELSE IF c > 0 THEN ReadIntPositive(r.pos, c, 0, TcOfInt(0))
     ELSE ReadIntNegative(r.pos, -c, 0, TcOfInt(-1))

-----------------------------------------------------------------------------
(* The productions that make no nested _read call, as functions of the     *)
(* position after the tag byte (and of the symbol table).  Each returns    *)
(*   ok, err   whether it returned, and the exception kind if it raised    *)
(*   pos       the position it leaves                                      *)
(*   v         the value returned                                          *)
(*   syms      the symbol table it leaves                                  *)
(*   spelt     the texts of the SYMBOL tags it decoded (history)           *)
(*   rb        its _read_bytes call, if it made one (history)              *)

Res(ok, err, pos, v, syms, spelt, rb) ==
  [ok |-> ok, err |-> err, pos |-> pos, v |-> v, syms |-> syms,
   spelt |-> spelt, rb |-> rb]

Returned(pos, v, syms, spelt, rb) == Res(TRUE, "", pos, v, syms, spelt, rb)
Raised(err, pos, syms, spelt, rb) == Res(FALSE, err, pos, NoneValue, syms, spelt, rb)

ColonText == <<58>>

\* A table that stores each distinct symbol once.
AppendSymbolOnce(syms, symbol) ==
  IF \E k \in 1..Len(syms) : syms[k] = symbol THEN syms ELSE Append(syms, symbol)

\* self._symbols.append(symbol)
AppendSymbol(syms, symbol) == Append(syms, symbol)

\* _read_symbol
ReadSymbol(p, syms) ==
  LET size == ReadInt(p)
      data_bytes == ReadBytes(size.pos, size.v)
      text == Utf8Decode(data_bytes.out)
  IN IF ~size.ok THEN Raised(size.err, size.pos, syms, <<>>, NoBytesCall)
     ELSE IF TcIsZero(size.v)
     THEN Returned(size.pos, StrValue(ColonText), AppendSymbol(syms, ColonText),
                   <<ColonText>>, NoBytesCall)
     ELSE IF ~data_bytes.ok
     THEN Raised(data_bytes.err, data_bytes.pos, syms, <<>>, data_bytes.rb)
     ELSE IF ~text.ok
     THEN Raised("UnicodeDecodeError", data_bytes.pos, syms, <<>>, data_bytes.rb)
     ELSE Returned(data_bytes.pos, StrValue(ColonText \o text.cps),
                   AppendSymbol(syms, ColonText \o text.cps),
                   <<ColonText \o text.cps>>, data_bytes.rb)

\* self._symbols[link], for a link below len(self._symbols): a negative
\* index counts from the end, and one below -len raises IndexError.
SymbolAt(p, syms, link) ==
  IF ~TcIsNeg(link)
  THEN Returned(p, StrValue(syms[TcToInt(link) + 1]), syms, <<>>, NoBytesCall)
  ELSE IF TcSmall(link) /\ TcToInt(link) >= -Len(syms)
  THEN Returned(p, StrValue(syms[Len(syms) + TcToInt(link) + 1]), syms, <<>>,
                NoBytesCall)
  ELSE Raised("IndexError", p, syms, <<>>, NoBytesCall)

\* A link that also takes a table entry of its own.
ReadSymbolLinkStored(p, syms) ==
  LET link == ReadInt(p)
      Stored(r) == IF r.ok THEN Returned(r.pos, r.v, Append(syms, r.v.v), <<>>,
                                         NoBytesCall)
                   ELSE r
  IN IF ~link.ok THEN Raised(link.err, link.pos, syms, <<>>, NoBytesCall)
     ELSE IF ~TcIsNeg(link.v) /\ (~TcSmall(link.v) \/ TcToInt(link.v) >= Len(syms))
     THEN Raised("InvalidSymbolLink", link.pos, syms, <<>>, NoBytesCall)
     ELSE Stored(SymbolAt(link.pos, syms, link.v))

\* _read_symbol_link
ReadSymbolLink(p, syms) ==
  LET link == ReadInt(p)
  IN IF ~link.ok THEN Raised(link.err, link.pos, syms, <<>>, NoBytesCall)
     ELSE IF ~TcIsNeg(link.v) /\ (~TcSmall(link.v) \/ TcToInt(link.v) >= Len(syms))
     THEN Raised("InvalidSymbolLink", link.pos, syms, <<>>, NoBytesCall)
     ELSE SymbolAt(link.pos, syms, link.v)

\* A class-name slot that takes whatever follows a non-link tag as a symbol.
ReadClassNameUnchecked(p, syms) ==
  LET type_byte == ReadByte(p)
      symbol_type == FromByte(type_byte.b)
  IN IF ~type_byte.ok
     THEN Raised(type_byte.err, type_byte.pos, syms, <<>>, NoBytesCall)
     ELSE IF symbol_type = "SYMBOL_LINK" THEN ReadSymbolLink(type_byte.pos, syms)
     ELSE ReadSymbol(type_byte.pos, syms)

\* The class-name slot of _read_object, _read_userdef and _read_usr_marshal.
ReadClassName(p, syms) ==
  LET type_byte == ReadByte(p)
      symbol_type == FromByte(type_byte.b)
  IN IF ~type_byte.ok
     THEN Raised(type_byte.err, type_byte.pos, syms, <<>>, NoBytesCall)
     ELSE IF symbol_type = "SYMBOL" THEN ReadSymbol(type_byte.pos, syms)
     ELSE IF symbol_type = "SYMBOL_LINK" THEN ReadSymbolLink(type_byte.pos, syms)
     ELSE Raised("UnexpectedType", type_byte.pos, syms, <<>>, NoBytesCall)

\* _read_string
ReadString(p, syms) ==
  LET size == ReadInt(p)
      data_bytes == ReadBytes(size.pos, size.v)
      text == Utf8Decode(data_bytes.out)
  IN IF ~size.ok THEN Raised(size.err, size.pos, syms, <<>>, NoBytesCall)
     ELSE IF ~data_bytes.ok
     THEN Raised(data_bytes.err, data_bytes.pos, syms, <<>>, data_bytes.rb)
     ELSE IF ~text.ok
     THEN Raised("UnicodeDecodeError", data_bytes.pos, syms, <<>>, data_bytes.rb)
     ELSE Returned(data_bytes.pos, StrValue(text.cps), syms, <<>>, data_bytes.rb)

\* 2 * x
TcTwice(x) == IF TcIsNeg(x) THEN TcNot(TcAdd(TcNot(x), TcAdd(TcNot(x), TcOfInt(1))))
              ELSE TcAdd(x, x)

\* result += unsigned_byte << (i * 8) over the bytes read
RECURSIVE BignumSum(_, _, _)
BignumSum(bs, i, result) ==
  IF i >= Len(bs) THEN result
  ELSE BignumSum(bs, i + 1, TcAdd(result, TcShl8(TcOfInt(bs[i + 1]), i)))

\* A BIGNUM production that honours the sign byte '-'.
ReadBignumSigned(p, syms) ==
  LET sign == ReadByte(p)
      length == ReadInt(sign.pos)
      data_bytes == ReadBytes(length.pos, TcTwice(length.v))
      Signed(sum) == IF sign.b = 45 THEN TcAdd(TcNot(sum), TcOfInt(1)) ELSE sum
  IN IF ~sign.ok THEN Raised(sign.err, sign.pos, syms, <<>>, NoBytesCall)
     ELSE IF ~length.ok THEN Raised(length.err, length.pos, syms, <<>>, NoBytesCall)
     ELSE IF ~data_bytes.ok
     THEN Raised(data_bytes.err, data_bytes.pos, syms, <<>>, data_bytes.rb)
     ELSE Returned(data_bytes.pos,
                   IntValue(Signed(BignumSum(data_bytes.out, 0, TcOfInt(0)))),
                   syms, <<>>, data_bytes.rb)

\* _read_bignum
ReadBignum(p, syms) ==
  LET sign == ReadByte(p)
      length == ReadInt(sign.pos)
      data_bytes == ReadBytes(length.pos, TcTwice(length.v))
  IN IF ~sign.ok THEN Raised(sign.err, sign.pos, syms, <<>>, NoBytesCall)
     ELSE IF ~length.ok THEN Raised(length.err, length.pos, syms, <<>>, NoBytesCall)
     ELSE IF ~data_bytes.ok
     THEN Raised(data_bytes.err, data_bytes.pos, syms, <<>>, data_bytes.rb)
     ELSE Returned(data_bytes.pos, IntValue(BignumSum(data_bytes.out, 0, TcOfInt(0))),
                   syms, <<>>, data_bytes.rb)

\* A USERDEF production whose class name stays out of the symbol table.
ReadUserdefScoped(p, syms) ==
  LET Unpacked(symbol, data_bytes, text) ==
        IF ~text.ok
        THEN Raised("UnicodeDecodeError", data_bytes.pos, syms,
                    symbol.spelt, data_bytes.rb)
        ELSE Returned(data_bytes.pos,
                      Wrap("USERDEF", symbol.v, <<StrValue(text.cps)>>),
                      syms, symbol.spelt, data_bytes.rb)
      Sliced(symbol, data_bytes) ==
        IF ~data_bytes.ok
        THEN Raised(data_bytes.err, data_bytes.pos, syms, symbol.spelt,
                    data_bytes.rb)
        ELSE Unpacked(symbol, data_bytes, Utf8Decode(data_bytes.out))
      Sized(symbol, size) ==
        IF ~size.ok
        THEN Raised(size.err, size.pos, syms, symbol.spelt, NoBytesCall)
        ELSE Sliced(symbol, ReadBytes(size.pos, size.v))
      Named(symbol) == IF ~symbol.ok THEN symbol
                       ELSE Sized(symbol, ReadInt(symbol.pos))
  IN Named(ReadClassName(p, syms))

\* _read_userdef
ReadUserdef(p, syms) ==
  LET Unpacked(symbol, data_bytes, text) ==
        IF ~text.ok
        THEN Raised("UnicodeDecodeError", data_bytes.pos, symbol.syms,
                    symbol.spelt, data_bytes.rb)
        ELSE Returned(data_bytes.pos,
                      Wrap("USERDEF", symbol.v, <<StrValue(text.cps)>>),
                      symbol.syms, symbol.spelt, data_bytes.rb)
      Sliced(symbol, data_bytes) ==
        IF ~data_bytes.ok
        THEN Raised(data_bytes.err, data_bytes.pos, symbol.syms, symbol.spelt,
                    data_bytes.rb)
        ELSE Unpacked(symbol, data_bytes, Utf8Decode(data_bytes.out))
      Sized(symbol, size) ==
        IF ~size.ok
        THEN Raised(size.err, size.pos, symbol.syms, symbol.spelt, NoBytesCall)
        ELSE Sliced(symbol, ReadBytes(size.pos, size.v))
      Named(symbol) == IF ~symbol.ok THEN symbol
                       ELSE Sized(symbol, ReadInt(symbol.pos))
  IN Named(ReadClassName(p, syms))

\* _read_link
ReadLink(p, syms) ==
  LET link == ReadInt(p)
  IN IF ~link.ok THEN Raised(link.err, link.pos, syms, <<>>, NoBytesCall)
     ELSE Returned(link.pos, Wrap("LINK", IntValue(link.v), <<>>), syms, <<>>,
                   NoBytesCall)

\* the INT arm of _read
ReadIntValue(p, syms) ==
  LET x == ReadInt(p)
  IN IF ~x.ok THEN Raised(x.err, x.pos, syms, <<>>, NoBytesCall)
     ELSE Returned(x.pos, IntValue(x.v), syms, <<>>, NoBytesCall)

\* for _ in range(size): the loop is over after i rounds
RangeDone(size, i) == TcIsNeg(size) \/ (TcSmall(size) /\ i >= TcToInt(size))

-----------------------------------------------------------------------------
(* The decode as a state machine.  pc = "read" is a pending _read call,    *)
(* pc = "ret" a _read call that has just returned retval to the call on    *)
(* top of the stack (to _load when the stack is empty).                    *)

Top == stack[Len(stack)]
Pop == SubSeq(stack, 1, Len(stack) - 1)
ReplaceTop(frame) == [stack EXCEPT ![Len(stack)] = frame]

\* _read up to the dispatch: the tag byte is read and from_byte selects `tag`.
Dispatch(tag) ==
  /\ pc = "read"
  /\ dispatches < MaxDispatch
  /\ ReadByte(position).ok
  /\ FromByte(ReadByte(position).b) = tag
  /\ dispatches' = dispatches + 1
  /\ data' = data

\* The call on top of the stack resumes with the value its _read returned.
Resume(fn) ==
  /\ pc = "ret"
  /\ stack # <<>>
  /\ Top.fn = fn
  /\ UNCHANGED <<data, dispatches>>

\* The effect of the cursor and symbol-table work r, after which the
\* production returns r.v, or raises.
Complete(r, stk) ==
  /\ r.err # "OutOfModel"
  /\ position' = r.pos
  /\ symbols' = r.syms
  /\ spelled' = spelled \o r.spelt
  /\ lastBytes' = IF r.rb.called THEN r.rb ELSE lastBytes
  /\ calls' = calls
  /\ verifier' = verifier
  /\ generator' = generator
  /\ pc' = IF r.ok THEN "ret" ELSE "raised"
  /\ retval' = IF r.ok THEN r.v ELSE retval
  /\ error' = IF r.ok THEN error ELSE r.err
  /\ stack' = IF r.ok THEN stk ELSE stack

\* The effect of the cursor and symbol-table work r, after which the
\* production calls _read with stack stk, or raises.
Descend(r, stk) ==
  /\ r.err # "OutOfModel"
  /\ r.ok => Len(stk) <= MaxDepth
  /\ position' = r.pos
  /\ symbols' = r.syms
  /\ spelled' = spelled \o r.spelt
  /\ lastBytes' = IF r.rb.called THEN r.rb ELSE lastBytes
  /\ calls' = calls
  /\ verifier' = verifier
  /\ generator' = generator
  /\ pc' = IF r.ok THEN "read" ELSE "raised"
  /\ retval' = retval
  /\ error' = IF r.ok THEN error ELSE r.err
  /\ stack' = IF r.ok THEN stk ELSE stack

\* No cursor or symbol-table work.
Here(v) == Returned(position, v, symbols, <<>>, NoBytesCall)

\* _load: the version check.  `and` does not read the second byte when the
\* first is not 4.
Load ==
  /\ pc = "load"
  /\ LET major == ReadByte(position)
         minor == ReadByte(major.pos)
     IN /\ position' = IF major.ok /\ major.b = 4 THEN minor.pos ELSE major.pos
        /\ pc' = IF major.ok /\ major.b = 4 /\ minor.ok /\ minor.b = 8
                 THEN "read" ELSE "raised"
        /\ error' = IF ~major.ok THEN major.err
                    ELSE IF major.b # 4 THEN "UnsupportedVersion"
                    ELSE IF ~minor.ok THEN minor.err
                    ELSE IF minor.b # 8 THEN "UnsupportedVersion"
                    ELSE error
  /\ UNCHANGED <<data, symbols, stack, retval, dispatches, spelled, lastBytes,
                 calls, verifier, generator>>

\* _read: _read_byte raises at the tag byte.
ReadNoTag ==
  /\ pc = "read"
  /\ dispatches < MaxDispatch
  /\ ~ReadByte(position).ok
  /\ dispatches' = dispatches + 1
  /\ data' = data
  /\ Complete(Raised(ReadByte(position).err, position, symbols, <<>>, NoBytesCall),
              stack)

\* A dispatch whose fall-through returns None.
ReadUnmanagedAsNil ==
  /\ pc = "read"
  /\ dispatches < MaxDispatch
  /\ ReadByte(position).ok
  /\ FromByte(ReadByte(position).b) \in {"None", "NONE"}
  /\ dispatches' = dispatches + 1
  /\ data' = data
  /\ Complete(Returned(position + 1, NoneValue, symbols, <<>>, NoBytesCall), stack)

\* _read: from_byte gives None, or gives NONE, which no arm handles.
ReadUnmanaged ==
  /\ pc = "read"
  /\ dispatches < MaxDispatch
  /\ ReadByte(position).ok
  /\ FromByte(ReadByte(position).b) \in {"None", "NONE"}
  /\ dispatches' = dispatches + 1
  /\ data' = data
  /\ Complete(Raised("UnsupportedType", position + 1, symbols, <<>>, NoBytesCall),
              stack)

ReadNil ==
  /\ Dispatch("NIL")
  /\ Complete(Returned(position + 1, NoneValue, symbols, <<>>, NoBytesCall), stack)

ReadTrue ==
  /\ Dispatch("TRUE")
  /\ Complete(Returned(position + 1, BoolValue(TRUE), symbols, <<>>, NoBytesCall),
              stack)

ReadFalse ==
  /\ Dispatch("FALSE")
  /\ Complete(Returned(position + 1, BoolValue(FALSE), symbols, <<>>, NoBytesCall),
              stack)

ReadIntTag ==
  /\ Dispatch("INT")
  /\ Complete(ReadIntValue(position + 1, symbols), stack)

ReadBignumTag ==
  /\ Dispatch("BIGNUM")
  /\ Complete(ReadBignum(position + 1, symbols), stack)

ReadStringTag ==
  /\ Dispatch("STRING")
  /\ Complete(ReadString(position + 1, symbols), stack)

ReadSymbolTag ==
  /\ Dispatch("SYMBOL")
  /\ Complete(ReadSymbol(position + 1, symbols), stack)

ReadSymbolLinkTag ==
  /\ Dispatch("SYMBOL_LINK")
  /\ Complete(ReadSymbolLink(position + 1, symbols), stack)

ReadUserdefTag ==
  /\ Dispatch("USERDEF")
  /\ Complete(ReadUserdef(position + 1, symbols), stack)

\* An EXTENDED production that reads the module name after its tag.
ReadExtendedWithModule ==
  /\ Dispatch("EXTENDED")
  /\ LET Named(module) ==
           IF ~module.ok THEN module
           ELSE Returned(module.pos, Wrap("EXTENDED", module.v, <<>>), module.syms,
                         module.spelt, module.rb)
     IN Complete(Named(ReadClassName(position + 1, symbols)), stack)

\* _read_extended
ReadExtendedTag ==
  /\ Dispatch("EXTENDED")
  /\ Complete(Returned(position + 1, Wrap("EXTENDED", NoneValue, <<>>), symbols,
                       <<>>, NoBytesCall), stack)

ReadLinkTag ==
  /\ Dispatch("LINK")
  /\ Complete(ReadLink(position + 1, symbols), stack)

\* _read_array up to its first _read call (or its return, for no element).
ReadArray ==
  /\ Dispatch("ARRAY")
  /\ LET size == ReadInt(position + 1)
         r == Res(size.ok, size.err, size.pos, ListValue(<<>>), symbols, <<>>,
                  NoBytesCall)
     IN IF size.ok /\ ~RangeDone(size.v, 0)
        THEN Descend(r, Append(stack, [fn |-> "array", size |-> size.v,
                                       result |-> <<>>]))
        ELSE Complete(r, stack)

\* An array filled from the front: result.insert(0, self._read()).
ArrayElementPrepending ==
  /\ Resume("array")
  /\ LET result == <<retval>> \o Top.result
     IN IF RangeDone(Top.size, Len(result))
        THEN Complete(Here(ListValue(result)), Pop)
        ELSE Descend(Here(NoneValue), ReplaceTop([Top EXCEPT !.result = result]))

\* _read_array: result.append(self._read()), then the next round or return.
ArrayElement ==
  /\ Resume("array")
  /\ LET result == Append(Top.result, retval)
     IN IF RangeDone(Top.size, Len(result))
        THEN Complete(Here(ListValue(result)), Pop)
        ELSE Descend(Here(NoneValue), ReplaceTop([Top EXCEPT !.result = result]))

\* _read_hash up to its first _read call (or its return, for no pair).
ReadHash ==
  /\ Dispatch("HASH")
  /\ LET size == ReadInt(position + 1)
         r == Res(size.ok, size.err, size.pos, DictValue(<<>>), symbols, <<>>,
                  NoBytesCall)
     IN IF size.ok /\ ~RangeDone(size.v, 0)
        THEN Descend(r, Append(stack, [fn |-> "hash_key", size |-> size.v,
                                       rounds |-> 0, key |-> NoneValue,
                                       result |-> <<>>]))
        ELSE Complete(r, stack)

\* _read_hash: key = self._read()
HashKey ==
  /\ Resume("hash_key")
  /\ Descend(Here(NoneValue),
             ReplaceTop([Top EXCEPT !.fn = "hash_value", !.key = retval]))

\* _read_hash: value = self._read(); result[key] = value, then the next
\* round or return.
HashValue ==
  /\ Resume("hash_value")
  /\ LET result == DictSet(Top.result, Top.key, retval)
     IN IF Unhashable(Top.key)
        THEN Complete(Raised("TypeError", position, symbols, <<>>, NoBytesCall), stack)
        ELSE IF RangeDone(Top.size, Top.rounds + 1)
        THEN Complete(Here(DictValue(result)), Pop)
        ELSE Descend(Here(NoneValue),
                     ReplaceTop([Top EXCEPT !.fn = "hash_key", !.result = result,
                                            !.rounds = Top.rounds + 1]))

\* _read_ivar up to result = self._read()
ReadIvar ==
  /\ Dispatch("IVARS")
  /\ Descend(Returned(position + 1, NoneValue, symbols, <<>>, NoBytesCall),
             Append(stack, [fn |-> "ivar_payload"]))

\* _read_ivar: size = self._read_int(), up to the first attribute's _read
\* (or the return, for no attribute).
IvarPayload ==
  /\ Resume("ivar_payload")
  /\ LET size == ReadInt(position)
         r == Res(size.ok, size.err, size.pos, retval, symbols, <<>>, NoBytesCall)
     IN IF size.ok /\ ~RangeDone(size.v, 0)
        THEN Descend(r, ReplaceTop([fn |-> "ivar_attrs", result |-> retval,
                                    size |-> size.v, attachments |-> <<>>]))
        ELSE Complete(r, IF size.ok THEN Pop ELSE stack)

\* An IVARS production that returns the value read last.
IvarAttributeReturned ==
  /\ Resume("ivar_attrs")
  /\ LET attachments == Append(Top.attachments, retval)
     IN IF Len(attachments) % 2 = 0 /\ RangeDone(Top.size, Len(attachments) \div 2)
        THEN Complete(Here(retval), Pop)
        ELSE Descend(Here(NoneValue),
                     ReplaceTop([Top EXCEPT !.attachments = attachments]))

\* _read_ivar: attachments.append(self._read()) for a key or a value, then
\* the next _read or the return of the payload.
IvarAttribute ==
  /\ Resume("ivar_attrs")
  /\ LET attachments == Append(Top.attachments, retval)
     IN IF Len(attachments) % 2 = 0 /\ RangeDone(Top.size, Len(attachments) \div 2)
        THEN Complete(Here(Top.result), Pop)
        ELSE Descend(Here(NoneValue),
                     ReplaceTop([Top EXCEPT !.attachments = attachments]))

\* _read_object up to its first _read call (or its return, for no pair).
ReadObject ==
  /\ Dispatch("OBJECT")
  /\ LET Sized(symbol, size) ==
           LET r == Res(size.ok, size.err, size.pos,
                        Wrap("OBJECT", symbol.v, <<>>), symbol.syms,
                        symbol.spelt, NoBytesCall)
           IN IF size.ok /\ ~RangeDone(size.v, 0)
              THEN Descend(r, Append(stack, [fn |-> "object",
                                             symbol |-> symbol.v,
                                             size |-> size.v,
                                             children |-> <<>>]))
              ELSE Complete(r, stack)
         Named(symbol) == IF ~symbol.ok THEN Complete(symbol, stack)
                          ELSE Sized(symbol, ReadInt(symbol.pos))
     IN Named(ReadClassName(position + 1, symbols))

\* An OBJECT production that reads one value per pair.
ObjectChildPerPair ==
  /\ Resume("object")
  /\ LET children == Append(Top.children, retval)
     IN IF RangeDone(Top.size, Len(children))
        THEN Complete(Here(Wrap("OBJECT", Top.symbol, children)), Pop)
        ELSE Descend(Here(NoneValue), ReplaceTop([Top EXCEPT !.children = children]))

\* _read_object: wrapper.add(self._read()) for a key or a value, then the
\* next _read or return.
ObjectChild ==
  /\ Resume("object")
  /\ LET children == Append(Top.children, retval)
     IN IF Len(children) % 2 = 0 /\ RangeDone(Top.size, Len(children) \div 2)
        THEN Complete(Here(Wrap("OBJECT", Top.symbol, children)), Pop)
        ELSE Descend(Here(NoneValue), ReplaceTop([Top EXCEPT !.children = children]))

\* _read_usr_marshal up to obj = self._read()
ReadUsrMarshal ==
  /\ Dispatch("USR_MARSHAL")
  /\ LET Named(symbol) ==
           Descend(symbol, Append(stack, [fn |-> "usr_marshal",
                                          symbol |-> symbol.v]))
     IN Named(ReadClassName(position + 1, symbols))

\* _read_usr_marshal: wrap the class name, add obj, return.
UsrMarshalChild ==
  /\ Resume("usr_marshal")
  /\ Complete(Here(Wrap("USR_MARSHAL", Top.symbol, <<retval>>)), Pop)

\* _load returns what its _read returned.
LoadReturn ==
  /\ pc = "ret"
  /\ stack = <<>>
  /\ pc' = "done"
  /\ UNCHANGED <<data, position, symbols, stack, retval, error, dispatches,
                 spelled, lastBytes, calls, verifier, generator>>

Next ==
  \/ Load
  \/ ReadNoTag
  \/ ReadUnmanaged
  \/ ReadNil
  \/ ReadTrue
  \/ ReadFalse
  \/ ReadIntTag
  \/ ReadBignumTag
  \/ ReadStringTag
  \/ ReadSymbolTag
  \/ ReadSymbolLinkTag
  \/ ReadUserdefTag
  \/ ReadExtendedTag
  \/ ReadLinkTag
  \/ ReadArray
  \/ ArrayElement
  \/ ReadHash
  \/ HashKey
  \/ HashValue
  \/ ReadIvar
  \/ IvarPayload
  \/ IvarAttribute
  \/ ReadObject
  \/ ObjectChild
  \/ ReadUsrMarshal
  \/ UsrMarshalChild
  \/ LoadReturn

-----------------------------------------------------------------------------
(* The buffers decoded.                                                    *)

\* No KeyGenerator has been constructed.
NoGenerator ==
  [secret |-> <<>>, iterations |-> 0, with_cache |-> FALSE, built |-> FALSE,
   key_cache |-> {}, threads |-> <<>>, started |-> 0]

\* No MessageVerifier has been constructed.
NoVerifier == [secret |-> <<>>, issued |-> <<>>, last |-> [op |-> "none"]]

\* Marshal.__init__
Fresh(buffer) ==
  /\ data = buffer
  /\ position = 0
  /\ symbols = <<>>
  /\ stack = <<>>
  /\ pc = "load"
  /\ retval = NoneValue
  /\ error = ""
  /\ dispatches = 0
  /\ spelled = <<>>
  /\ lastBytes = NoBytesCall
  /\ calls = <<>>
  /\ verifier = NoVerifier
  /\ generator = NoGenerator

Header == <<4, 8>>

\* The literals of the tests, and one stream per production.
KnownInteger == <<4, 8, 105, 6>>
KnownString == <<4, 8, 73, 34, 11, 97, 122, 101, 114, 116, 121, 6, 58, 6, 69, 84>>
KnownSymbol == <<4, 8, 58, 11, 97, 122, 101, 114, 116, 121>>
KnownHash ==
  <<4, 8, 123, 6, 73, 34, 7, 97, 122, 6, 58, 6, 69, 84,
    73, 34, 7, 113, 115, 6, 59, 0, 84>>
Malformed == <<97, 98, 99, 100, 101, 102, 103, 104>>
\* [:a, :a, :b, :a] as Ruby writes it: symbol, link 0, symbol, link 0.
SymbolReuse == <<4, 8, 91, 9, 58, 6, 97, 59, 0, 58, 6, 98, 59, 0>>

Corpus ==
  { <<>>, KnownInteger, KnownString, KnownSymbol, KnownHash, Malformed,
    SymbolReuse, Header,
    Header \o <<255>>,
    Header \o <<48>>,
    Header \o <<91, 7, 84, 70>>,
    Header \o <<108, 43, 6, 1, 2>>,
    Header \o <<111, 58, 6, 65, 6, 58, 7, 64, 97, 105, 6>>,
    Header \o <<117, 58, 6, 65, 7, 120, 121>>,
    Header \o <<85, 58, 6, 65, 91, 6, 105, 7>>,
    Header \o <<91, 7, 101, 64, 6>>,
    Header \o <<123, 6, 91, 0, 48>> }


\* All sequences over S of length at most n.
SeqsUpTo(S, n) == UNION {[1..k -> S] : k \in 0..n}

RECURSIVE Concat(_)
Concat(ss) == IF ss = <<>> THEN <<>> ELSE Head(ss) \o Concat(Tail(ss))

\* Every body over the bytes that drive the cursor: the tags that call
\* _read_bytes, two tags that nest, and lengths 1, 0, -1, -6 and -123.
CursorBytes == {34, 58, 108, 117, 91, 73, 6, 0, 250, 245, 128}
CursorFamily == {Header \o body : body \in SeqsUpTo(CursorBytes, MaxBody)}

\* Arrays of symbols and symbol links: :a, :b, the empty symbol, the links
\* 0, 1, 2, -1 and -3, and a nested one-element array.
SymbolItems ==
  { <<58, 6, 97>>, <<58, 6, 98>>, <<58, 0>>, <<59, 0>>, <<59, 6>>, <<59, 7>>,
    <<59, 250>>, <<59, 248>>, <<91, 6>> }
SymbolFamily ==
  { Header \o <<91, IF Len(items) = 0 THEN 0 ELSE Len(items) + 5>> \o Concat(items) :
      items \in SeqsUpTo(SymbolItems, MaxItems) }

\* Every buffer of at most three bytes over header-like bytes.
HeaderFamily == SeqsUpTo({4, 8, 5, 48}, 3)

\* Every byte in a value position, alone and followed by a length and a byte.
TagFamily == {Header \o <<b>> \o tail : b \in 0..255, tail \in {<<>>, <<6, 97>>}}

\* Every byte in the class-name slot of OBJECT, USERDEF and USR_MARSHAL.
ClassSlotFamily ==
  { Header \o <<t, b>> \o tail :
      t \in {OBJECT, USERDEF, USR_MARSHAL}, b \in 0..255,
      tail \in {<<>>, <<6, 97, 0>>} }

\* The array [:a, w] for a wrapper w whose class name is a symbol link: the
\* links 0, 1 and -1, before nothing, an empty body and a one-item body.
ClassLinkFamily ==
  { Header \o <<91, 7, 58, 6, 97, t, 59, k>> \o tail :
      t \in {OBJECT, USERDEF, USR_MARSHAL}, k \in {0, 6, 250},
      tail \in {<<>>, <<0>>, <<6, 48, 48>>} }

\* Productions that read a negative length and then read on: under IVARS,
\* ARRAY, HASH, OBJECT and USR_MARSHAL, a STRING or a SYMBOL of length -2
\* or -3 (the bytes 249 and 248), which sets the cursor back onto the
\* STRING tag (ARRAY and HASH, with 122 elements) or onto the tag of the
\* enclosing production itself.
RevisitFamily ==
  { Header \o body :
      body \in { <<73, 34, 248>>, <<91, 127, 34, 249>>, <<123, 127, 34, 249>>,
                 <<111, 58, 248, 34, 249>>, <<85, 58, 248>> } }

\* What comes before the count of ARRAY, HASH, OBJECT (class :a) and IVARS
\* (payload nil), and before the length of STRING, SYMBOL, USERDEF
\* (class :a) and BIGNUM (sign '+').
CountLeads == { <<91>>, <<123>>, <<111, 58, 6, 97>>, <<73, 48>> }
LengthLeads == { <<34>>, <<58>>, <<117, 58, 6, 97>>, <<108, 43>> }

\* Each of them with the prefixes -1 and -2 (in one byte and in two), 0 and
\* 1, before nothing and before a nil.
PrefixFamily ==
  { Header \o lead \o prefix \o tail :
      lead \in CountLeads \cup LengthLeads,
      prefix \in { <<250>>, <<255, 254>>, <<0>>, <<6>> },
      tail \in { <<>>, <<48>> } }

\* A nil with one attribute whose value is nil and whose key is the
\* integer 1, the string "a", the empty array, nil, :a or the link 0.
IvarKeys ==
  { <<INT, 6>>, <<STRING_, 6, 97>>, <<ARRAY, 0>>, <<NIL>>, <<SYMBOL, 6, 97>>,
    <<SYMBOL_LINK, 0>> }
IvarKeyFamily == { Header \o <<IVARS, NIL, 6>> \o key \o <<NIL>> : key \in IvarKeys }

Init ==
  \E buffer \in Corpus \cup CursorFamily \cup SymbolFamily \cup HeaderFamily
                  \cup TagFamily \cup ClassSlotFamily \cup ClassLinkFamily
                  \cup RevisitFamily \cup PrefixFamily \cup IvarKeyFamily :
    Fresh(buffer)

Spec == Init /\ [][Next]_vars

\* The packed fixnum under the INT tag: every leading byte, followed by the
\* bytes it asks for drawn from 0, 1, 127, 128 and 255 (and by fewer, and by
\* more).
IntTailBytes == {0, 1, 127, 128, 255}
MultiByteCodes == {1, 2, 3, 4, 252, 253, 254, 255}
IntFamily ==
  { Header \o <<INT, c>> \o tail :
      c \in MultiByteCodes, tail \in SeqsUpTo(IntTailBytes, MaxIntTail) }
  \cup
  { Header \o <<INT, c>> \o tail : c \in 0..255, tail \in {<<>>, <<255>>} }

\* Ruby's w_long: the shortest packed form of x, as unsigned bytes.
RECURSIVE WLongBytes(_)
WLongBytes(x) ==
  IF x = 0 \/ x = -1 THEN <<>> ELSE <<x % 256>> \o WLongBytes(x \div 256)

WLong(x) ==
  IF x = 0 THEN <<0>>
  ELSE IF 0 < x /\ x < 123 THEN <<x + 5>>
  ELSE IF -124 < x /\ x < 0 THEN <<(x - 5) % 256>>
  ELSE IF x > 0 THEN <<Len(WLongBytes(x))>> \o WLongBytes(x)
  ELSE <<256 - Len(WLongBytes(x))>> \o WLongBytes(x)

\* Integers of Ruby's fixnum range -2^30 .. 2^30 - 1: the small ones, the
\* ones the tests name, and the ones around each change of width.
RoundTripValues ==
  (-MaxSmall..MaxSmall)
  \cup {255, 256, 257, -255, -256, -257, 65535, 65536, 65537, -65535, -65536,
        -65537, 16777215, 16777216, 16777217, -16777215, -16777216, -16777217,
        1073741823, 1073741822, -1073741824, -1073741823, 305419896, -305419896}
RoundTripFamily == {Header \o <<INT>> \o WLong(v) : v \in RoundTripValues}

InitInt ==
  \E buffer \in Corpus \cup IntFamily \cup RoundTripFamily : Fresh(buffer)

SpecInt == InitInt /\ [][Next]_vars

-----------------------------------------------------------------------------
(* The cursor.                                                             *)

\* C1: in every reachable state of a decode call the cursor lies inside
\* the buffer, 0 <= position <= len(buffer), also after a production whose
\* length prefix decodes to a negative number.
PositionInBuffer == 0 <= position /\ position <= Len(data)

\* What a _read_bytes call must have done: fail in place, or hand out
\* exactly the count >= 0 bytes under the cursor and step over them.
BytesCallInOrder(call) ==
  IF call.ok
  THEN /\ call.count >= 0
       /\ call.at >= 0
       /\ call.to = call.at + call.count
       /\ call.out = SubSeq(data, call.at + 1, call.at + call.count)
  ELSE call.to = call.at

\* C2: every cursor read fails leaving the position unchanged, or returns
\* exactly the bytes buffer[position .. position+k) and advances the
\* position by k >= 0; so the position never decreases during a decode.
CursorOnlyAdvances ==
  [][ /\ position' >= position
      /\ lastBytes'.called => BytesCallInOrder(lastBytes') ]_vars

-----------------------------------------------------------------------------
(* The symbol table.                                                       *)

\* The step is a _read call that dispatches on the tag byte `tag`.
Dispatches(tag) ==
  pc = "read" /\ ReadByte(position).ok /\ ReadByte(position).b = tag

\* The step is a _read call of a production with a class-name slot, and
\* the slot holds the tag byte `tag`.
ClassSlotHolds(tag) ==
  /\ pc = "read"
  /\ ReadByte(position).ok
  /\ ReadByte(position).b \in {OBJECT, USERDEF, USR_MARSHAL}
  /\ ReadByte(position + 1).ok
  /\ ReadByte(position + 1).b = tag

\* The link stored at p is read whole and indexes the table: 0 <= i < len.
LinkInRange(link) ==
  link.ok /\ ~TcIsNeg(link.v) /\ TcSmall(link.v) /\ TcToInt(link.v) < Len(symbols)

LinkOutOfRange(link) ==
  link.ok /\ (TcIsNeg(link.v) \/ ~TcSmall(link.v) \/ TcToInt(link.v) >= Len(symbols))

\* The elements of the decoded four-element array [A, link 0, B, link 0].
ReuseDecoded ==
  /\ retval.t = "list"
  /\ Len(retval.items) = 4
  /\ retval.items[1] = retval.items[2]
  /\ retval.items[1] = retval.items[4]
  /\ retval.items[3] # retval.items[1]

\* C3: a SYMBOL_LINK with an in-range index i returns the text of the
\* (i+1)-th SYMBOL tag decoded earlier in the call, at any depth and however
\* many links came in between; the array symbol A, link 0, symbol B, link 0
\* decodes with elements 0, 1, 3 equal and element 2 different.
LinkReturnsSpelledSymbol ==
  [][ LET Linked(i) == i < Len(spelled) /\ pc' = "ret"
                       /\ retval' = StrValue(spelled[i + 1])
          Slotted(i) == /\ i < Len(spelled)
                        /\ pc' = "read" =>
                             stack'[Len(stack')].symbol = StrValue(spelled[i + 1])
                        /\ pc' = "ret" => retval'.obj = StrValue(spelled[i + 1])
          AtValue(link) == LinkInRange(link) => Linked(TcToInt(link.v))
          AtSlot(link) == LinkInRange(link) => Slotted(TcToInt(link.v))
      IN /\ Dispatches(SYMBOL_LINK) => AtValue(ReadInt(position + 1))
         /\ ClassSlotHolds(SYMBOL_LINK) => AtSlot(ReadInt(position + 2))
         /\ (data' = SymbolReuse /\ pc' = "done") => ReuseDecoded' ]_vars

\* The four-element array of the symbol-reuse test has been decoded.
SymbolReuseDone ==
  /\ data = SymbolReuse
  /\ pc = "done"
  /\ retval = ListValue(<<StrValue(<<58, 97>>), StrValue(<<58, 97>>),
                          StrValue(<<58, 98>>), StrValue(<<58, 97>>)>>)
  /\ symbols = <<<<58, 97>>, <<58, 98>>>>

\* C4: a SYMBOL_LINK whose index i is out of range of the table, i >= len
\* or i < 0, fails the decode with the invalid-symbol-link error and never
\* returns a symbol.
LinkOutOfRangeFails ==
  [][ LET Fails == pc' = "raised" /\ error' = "InvalidSymbolLink"
          AtLink(link) == LinkOutOfRange(link) => Fails
      IN /\ Dispatches(SYMBOL_LINK) => AtLink(ReadInt(position + 1))
         /\ ClassSlotHolds(SYMBOL_LINK) => AtLink(ReadInt(position + 2)) ]_vars

\* C5: the symbol table is append-only: it never shrinks, a stored entry
\* never changes, it grows by exactly one entry (the symbol returned) on
\* each successfully decoded SYMBOL tag, duplicates and ':' included, and
\* no other step changes it.
SymbolTableAppendOnly ==
  [][ LET grew == Len(symbols') - Len(symbols)
          Decoded(symbol) == IF symbol.ok
                             THEN grew = 1 /\ symbols'[Len(symbols')] = symbol.v.v
                             ELSE grew = 0
      IN /\ grew >= 0
         /\ SubSeq(symbols', 1, Len(symbols)) = symbols
         /\ IF Dispatches(SYMBOL)
            THEN /\ Decoded(ReadSymbol(position + 1, symbols))
                 /\ grew = 1 => (pc' = "ret" /\ retval'.v = symbols'[Len(symbols')])
            ELSE IF ClassSlotHolds(SYMBOL)
            THEN Decoded(ReadSymbol(position + 2, symbols))
            ELSE symbols' = symbols ]_vars

\* The table after :a, :a again, and the zero-length symbol.
DuplicatesStored == symbols = <<<<58, 97>>, <<58, 97>>, <<58>>>>

-----------------------------------------------------------------------------
(* The packed fixnum.                                                      *)

\* A buffer that is the header, the INT tag and a leading byte.
IntBuffer == Len(data) >= 4 /\ data[1] = 4 /\ data[2] = 8 /\ data[3] = INT

\* The leading byte c as a signed byte, and the stored byte b_i.
LeadingByte == IF data[4] < 128 THEN data[4] ELSE data[4] - 256
StoredByte(i) == data[5 + i]

\* The number of stored bytes the leading byte c asks for.
StoredCount(c) == IF 1 <= c /\ c <= 4 THEN c ELSE IF -4 <= c /\ c <= -1 THEN -c ELSE 0

\* The sum of b_i * 2^(8i) over i < n, for n <= 3.
LowSum(n) ==
  (IF n > 0 THEN StoredByte(0) ELSE 0) + (IF n > 1 THEN 256 * StoredByte(1) ELSE 0)
    + (IF n > 2 THEN 65536 * StoredByte(2) ELSE 0)

\* The value the leading byte c denotes, as <<hi, lo>> with
\* value = hi * 2^24 + lo and 0 <= lo < 2^24.
Split(v) == <<v \div 16777216, v % 16777216>>
PackedValue(c) ==
  IF c = 0 THEN Split(0)
  ELSE IF c > 4 THEN Split(c - 5)
  ELSE IF c < -4 THEN Split(c + 5)
  ELSE IF c = 4 THEN <<StoredByte(3), LowSum(3)>>
  ELSE IF c > 0 THEN Split(LowSum(c))
  ELSE IF c = -4 THEN <<StoredByte(3) - 256, LowSum(3)>>
  ELSE IF c = -1 THEN Split(LowSum(1) - 256)
  ELSE IF c = -2 THEN Split(LowSum(2) - 65536)
  ELSE Split(LowSum(3) - 16777216)

\* C6: the packed fixnum with leading signed byte c and stored bytes b_i is
\* 0 for c = 0, c - 5 for c > 4, c + 5 for c < -4, the sum of b_i * 2^(8i)
\* over i < c for 1 <= c <= 4, and that sum over i < n less 2^(8n), a
\* negative number, for c = -n in -4 .. -1; the decode consumes 1 byte in
\* the immediate cases and 1 + |c| bytes in the others.
PackedFixnumDecoded ==
  (pc \in {"done", "raised"} /\ IntBuffer
     /\ Len(data) >= 4 + StoredCount(LeadingByte)) =>
    /\ pc = "done"
    /\ position = 4 + StoredCount(LeadingByte)
    /\ retval.t = "int"
    /\ <<TcHi(retval), TcLo(retval)>> = PackedValue(LeadingByte)
    /\ (-4 <= LeadingByte /\ LeadingByte <= -1) => retval.s = 255

\* The two-byte negative form FE 80 01 has been decoded to 384 - 65536.
NegativeTwoBytesDecoded ==
  /\ data = <<4, 8, 105, 254, 128, 1>>
  /\ pc = "done"
  /\ position = 6
  /\ retval = IntValue(TcOfInt(-65152))

\* Each integer of the round-trip family with its canonical encoding.
Encoded == {<<v, Header \o <<INT>> \o WLong(v)>> : v \in RoundTripValues}

\* C7: decoding the canonical encoding of an integer v of the fixnum range
\* (header 4 8, tag 'i', shortest packed form) returns exactly v.
IntegerRoundTrip ==
  \A e \in Encoded :
    data = e[2] => /\ pc # "raised"
                   /\ pc = "done" => retval = IntValue(TcOfInt(e[1]))

\* -65536, in its three-byte negative form, has come back.
RoundTripDone ==
  /\ data = Header \o <<INT>> \o WLong(-65536)
  /\ data = <<4, 8, 105, 254, 0, 0>>
  /\ pc = "done"
  /\ TcToInt(retval) = -65536

-----------------------------------------------------------------------------
(* The header and the dispatch.                                            *)

\* C8: load reads exactly two header bytes before deciding: a buffer of
\* fewer than two bytes fails with UnexpectedEndOfInput, a buffer of two or
\* more bytes whose first two are not (4, 8) fails with UnsupportedVersion,
\* in both cases with no value dispatched and the symbol table empty; only
\* a (4, 8) header leads to the one top-level value decode.
HeaderReadWhole ==
  /\ (pc # "load" /\ Len(data) < 2) =>
       /\ pc = "raised" /\ error = "UnexpectedEndOfInput"
       /\ dispatches = 0 /\ symbols = <<>>
  /\ (pc # "load" /\ Len(data) >= 2 /\ SubSeq(data, 1, 2) # Header) =>
       /\ pc = "raised" /\ error = "UnsupportedVersion" /\ position = 2
       /\ dispatches = 0 /\ symbols = <<>>
  /\ (pc # "load" /\ Len(data) >= 2 /\ SubSeq(data, 1, 2) = Header) =>
       (dispatches = 0 => pc = "read" /\ position = 2)

\* The bytes _read has an arm for.
AcceptedTags == {48, 84, 70, 105, 108, 34, 58, 59, 91, 123, 73, 111, 117, 85, 101, 64}

\* C9: the value dispatch accepts exactly sixteen tag bytes; every other
\* byte in a value position, 0 and the bytes from 128 up included, fails
\* the decode with the unsupported-type error after that one byte is
\* consumed, and no value is returned.
DispatchAcceptsSixteen ==
  [][ LET Refused == /\ pc' = "raised" /\ error' = "UnsupportedType"
                     /\ position' = position + 1
                     /\ retval' = retval /\ symbols' = symbols /\ stack' = stack
          AtTag(b) == IF b \in AcceptedTags
                      THEN ~(pc' = "raised" /\ error' = "UnsupportedType")
                      ELSE Refused
      IN (pc = "read" /\ ReadByte(position).ok) =>
           AtTag(ReadByte(position).b % 256) ]_vars

\* The byte 0 in the value position has been refused.
NoneTagRefused ==
  /\ data = Header \o <<NONE>>
  /\ pc = "raised"
  /\ error = "UnsupportedType"
  /\ position = 3

\* C10: in the class-name slot of OBJECT, USERDEF and USR_MARSHAL every
\* byte other than the SYMBOL and SYMBOL_LINK tags fails the decode with the
\* unexpected-type error before any length, payload or nested value is read,
\* and no wrapper is produced.
ClassSlotNeedsSymbol ==
  [][ \A b \in (0..255) \ {SYMBOL, SYMBOL_LINK} :
        ClassSlotHolds(IF b < 128 THEN b ELSE b - 256) =>
          /\ pc' = "raised" /\ error' = "UnexpectedType"
          /\ position' = position + 2
          /\ retval' = retval /\ stack' = stack /\ symbols' = symbols
          /\ lastBytes' = lastBytes ]_vars

\* A STRING tag in the class-name slot of an OBJECT has been refused, with
\* the bytes after it unread.
StringInClassSlotRefused ==
  /\ data = Header \o <<OBJECT, STRING_, 6, 97, 0>>
  /\ pc = "raised"
  /\ error = "UnexpectedType"
  /\ position = 4
  /\ retval = NoneValue

-----------------------------------------------------------------------------
(* Failures.                                                               *)

\* The error kinds a decode may fail with; the UTF-8 decode error of a
\* string, symbol or userdef payload is the invalid-encoding kind.
DefinedErrorKinds ==
  {"UnexpectedEndOfInput", "UnsupportedVersion", "UnsupportedType",
   "UnexpectedType", "InvalidSymbolLink", "UnicodeDecodeError"}

\* C11: for every buffer, load returns a value or fails with one of the six
\* defined error kinds; no input, a symbol link below the table and a hash
\* keyed by an array, a hash or a wrapper included, fails in another way.
OnlyDefinedErrorKinds == pc = "raised" => error \in DefinedErrorKinds

-----------------------------------------------------------------------------
(* Several calls of load.  Each call is cls(data)._load() on an instance   *)
(* of its own; the calls run one at a time and may be switched between any *)
(* two steps (threads), or follow one another.                             *)

\* calls of load alive at once
MaxCalls == 2

\* The instance that is running, as a record of its fields.
Running ==
  [data |-> data, position |-> position, symbols |-> symbols, stack |-> stack,
   pc |-> pc, retval |-> retval, error |-> error, dispatches |-> dispatches,
   spelled |-> spelled, lastBytes |-> lastBytes]

\* An instance whose symbol table is the list of the instance running now
\* (a list shared through the class).
NewInstanceSharedTable(buffer) ==
  [data |-> buffer, position |-> 0, symbols |-> symbols, stack |-> <<>>,
   pc |-> "load", retval |-> NoneValue, error |-> "", dispatches |-> 0,
   spelled |-> <<>>, lastBytes |-> NoBytesCall]

\* Marshal.__init__: cls(data)
NewInstance(buffer) ==
  [data |-> buffer, position |-> 0, symbols |-> <<>>, stack |-> <<>>,
   pc |-> "load", retval |-> NoneValue, error |-> "", dispatches |-> 0,
   spelled |-> <<>>, lastBytes |-> NoBytesCall]

\* The instance c runs next.
Install(c) ==
  /\ data' = c.data
  /\ position' = c.position
  /\ symbols' = c.symbols
  /\ stack' = c.stack
  /\ pc' = c.pc
  /\ retval' = c.retval
  /\ error' = c.error
  /\ dispatches' = c.dispatches
  /\ spelled' = c.spelled
  /\ lastBytes' = c.lastBytes

\* The buffers of the further calls: a symbol, a link into an empty table,
\* a symbol with a link to it, and an array that fails after its symbol.
CallBuffers ==
  { KnownSymbol, Header \o <<59, 0>>, Header \o <<91, 7, 58, 6, 97, 59, 0>>,
    Header \o <<91, 7, 58, 6, 98, 255>> }

\* Marshal.load: another call starts, on an instance of its own.
Call ==
  /\ Len(calls) + 1 < MaxCalls
  /\ \E buffer \in CallBuffers :
       /\ Install(NewInstance(buffer))
       /\ calls' = Append(calls, Running)
       /\ verifier' = verifier
       /\ generator' = generator

\* Another call goes on: the running one waits in its place.
Yield ==
  \E k \in 1..Len(calls) :
    /\ Install(calls[k])
    /\ calls' = [calls EXCEPT ![k] = Running]
    /\ verifier' = verifier
    /\ generator' = generator

NextCalls ==
  \/ Next
  \/ Call
  \/ Yield

InitCalls == \E buffer \in Corpus \cup CallBuffers : Fresh(buffer)

SpecCalls == InitCalls /\ [][NextCalls]_vars

\* Every call alive.
AllCalls == <<Running>> \o calls

\* What a call that has ended hands back, and the state it ended in.
Ended(c) == c.pc \in {"done", "raised"}
Outcome(c) == <<c.pc, c.retval, c.error, c.position, c.symbols>>

\* C12: the outcome of a call of load depends on its own bytes only: every
\* call starts at position 0 with an empty symbol table, two calls on the
\* same bytes end alike however the calls are ordered or interleaved, and a
\* call ends as it does when run alone (a symbol decodes to itself, a link
\* into the call's own empty table is refused).
CallsIndependent ==
  \A i \in 1..Len(AllCalls) :
    LET AsAlone(c) ==
          /\ c.pc = "load" => (c.position = 0 /\ c.symbols = <<>>)
          /\ (Ended(c) /\ c.data = KnownSymbol) =>
               Outcome(c) = <<"done", StrValue(<<58, 97, 122, 101, 114, 116, 121>>),
                              "", 10, <<<<58, 97, 122, 101, 114, 116, 121>>>>>>
          /\ (Ended(c) /\ c.data = Header \o <<59, 0>>) =>
               Outcome(c) = <<"raised", NoneValue, "InvalidSymbolLink", 4, <<>>>>
          /\ \A j \in 1..Len(AllCalls) :
               (Ended(c) /\ Ended(AllCalls[j]) /\ AllCalls[j].data = c.data) =>
                 Outcome(AllCalls[j]) = Outcome(c)
    IN AsAlone(AllCalls[i])

\* A link into an empty table has been refused in a call that started
\* after another call had stored a symbol and failed midway.
LinkRefusedAfterOtherCall ==
  /\ Len(calls) = 1
  /\ calls[1].pc = "raised"
  /\ calls[1].symbols # <<>>
  /\ data = Header \o <<59, 0>>
  /\ pc = "raised"
  /\ error = "InvalidSymbolLink"

-----------------------------------------------------------------------------
(* Well-formed streams of nested values.                                   *)

\* levels of arrays in the array family
MaxNest == 2

\* The streams of the values nested at most d levels: nil, the integer 2,
\* and arrays of none, one or two such values one level less deep.
RECURSIVE ArrayStreams(_)
ArrayStreams(d) ==
  IF d = 0 THEN {<<NIL>>, <<INT, 7>>}
  ELSE {<<NIL>>, <<INT, 7>>} \cup
       { <<ARRAY, IF Len(items) = 0 THEN 0 ELSE Len(items) + 5>> \o Concat(items) :
           items \in SeqsUpTo(ArrayStreams(d - 1), 2) }

\* N one-element arrays around nil.
RECURSIVE Nested(_)
Nested(n) == IF n = 0 THEN <<NIL>> ELSE <<ARRAY, 6>> \o Nested(n - 1)

ArrayFamily ==
  {Header \o stream : stream \in ArrayStreams(MaxNest)}
  \cup {Header \o Nested(n) : n \in 1..MaxDepth}

\* The value spelled at position p of a stream of the array family, and
\* the position just past it: nil, an integer c - 5 given by its one byte
\* c, or an array of the n values that follow its length prefix.
RECURSIVE Spelled(_), SpelledItems(_, _, _)
Spelled(p) ==
  IF data[p + 1] = NIL THEN [v |-> NoneValue, pos |-> p + 1]
  ELSE IF data[p + 1] = INT
  THEN [v |-> IntValue(TcOfInt(data[p + 2] - 5)), pos |-> p + 2]
  ELSE SpelledItems(p + 2, IF data[p + 2] = 0 THEN 0 ELSE data[p + 2] - 5, <<>>)
SpelledItems(p, n, items) ==
  IF n = 0 THEN [v |-> ListValue(items), pos |-> p]
  ELSE SpelledItems(Spelled(p).pos, n - 1, Append(items, Spelled(p).v))

\* C13: an ARRAY with length prefix n >= 0 yields exactly n elements,
\* element k the decode of the k-th successive value, at every nesting
\* level, and the cursor ends just past the last element.
ArrayShapeKept ==
  data \in ArrayFamily =>
    /\ pc # "raised"
    /\ pc = "done" => /\ retval = Spelled(2).v
                      /\ position = Spelled(2).pos
                      /\ position = Len(data)

\* [[nil, 2], [2]] has been decoded.
NestedArrayDecoded ==
  /\ data = Header \o <<ARRAY, 7, ARRAY, 7, NIL, INT, 7, ARRAY, 6, INT, 7>>
  /\ pc = "done"
  /\ retval = ListValue(<<ListValue(<<NoneValue, IntValue(TcOfInt(2))>>),
                          ListValue(<<IntValue(TcOfInt(2))>>)>>)
  /\ position = 13

\* Hashes of none, one or two pairs: the keys 1, 2 and true, the values
\* nil and 2.
PairStreams ==
  { key \o value : key \in {<<INT, 6>>, <<INT, 7>>, <<TRUE_>>},
                   value \in {<<NIL>>, <<INT, 7>>} }
HashFamily ==
  { Header \o <<HASH, IF Len(pairs) = 0 THEN 0 ELSE Len(pairs) + 5>> \o Concat(pairs) :
      pairs \in SeqsUpTo(PairStreams, 2) }

\* C14: a HASH with pair-count n yields a mapping of exactly n pairs in
\* stream order; pairs with equal keys are all kept, so the number of
\* entries equals the pair-count read from the stream.
HashKeepsEveryPair ==
  (data \in HashFamily /\ pc = "done") =>
    /\ retval.t = "dict"
    /\ Len(retval.pairs) = (IF data[4] = 0 THEN 0 ELSE data[4] - 5)

\* IVARS productions inside the array [ivars, 3]: the payloads "a", 2 and
\* [nil], each with the value it spells, followed by none, one or two
\* attributes keyed :E or 1 with the values true, false and nil.
IvarPayloads ==
  { <<<<STRING_, 6, 97>>, StrValue(<<97>>)>>,
    <<<<INT, 7>>, IntValue(TcOfInt(2))>>,
    <<<<ARRAY, 6, NIL>>, ListValue(<<NoneValue>>)>> }
AttributeStreams ==
  { key \o value : key \in {<<SYMBOL, 6, 69>>, <<INT, 6>>},
                   value \in {<<TRUE_>>, <<FALSE_>>, <<NIL>>} }
IvarCases ==
  { <<Header \o <<ARRAY, 7, IVARS>> \o payload[1]
        \o <<IF Len(attrs) = 0 THEN 0 ELSE Len(attrs) + 5>> \o Concat(attrs)
        \o <<INT, 8>>,
      payload[2]>> :
      payload \in IvarPayloads, attrs \in SeqsUpTo(AttributeStreams, 2) }
IvarFamily == {case[1] : case \in IvarCases}

\* C15: an IVARS production returns the decode of its payload whatever
\* attributes follow, and consumes the payload, the attribute count c and
\* the 2*c attribute values: the value after it in the enclosing array is
\* decoded from the first byte after the last attribute value.
IvarReturnsPayload ==
  \A case \in IvarCases :
    data = case[1] =>
      /\ pc # "raised"
      /\ pc = "done" =>
           /\ retval = ListValue(<<case[2], IntValue(TcOfInt(3))>>)
           /\ position = Len(data)

\* ["a" with the attributes :E => true and 1 => nil, 3] has been decoded.
IvarWithAttributesDecoded ==
  /\ data = Header \o <<ARRAY, 7, IVARS, STRING_, 6, 97, 7, SYMBOL, 6, 69, TRUE_,
                        INT, 6, NIL, INT, 8>>
  /\ pc = "done"
  /\ retval = ListValue(<<StrValue(<<97>>), IntValue(TcOfInt(3))>>)
  /\ symbols = <<<<58, 69>>>>

\* Wrappers inside the array [:A, wrapper], each stream with the value it
\* spells.  The class name is the symbol :B or a link to :A.
ClassNames ==
  { <<<<SYMBOL, 6, 66>>, StrValue(<<58, 66>>)>>,
    <<<<SYMBOL_LINK, 0>>, StrValue(<<58, 65>>)>> }
\* A pair of an OBJECT: the key :x or a link to :A, the value 2 or nil.
ObjectPairs ==
  { <<key[1] \o value[1], <<key[2], value[2]>>>> :
      key \in { <<<<SYMBOL, 6, 120>>, StrValue(<<58, 120>>)>>,
                <<<<SYMBOL_LINK, 0>>, StrValue(<<58, 65>>)>> },
      value \in { <<<<INT, 7>>, IntValue(TcOfInt(2))>>, <<<<NIL>>, NoneValue>> } }
\* The payloads "", "x" and "xy" of a USERDEF, behind their length.
UserdefPayloads ==
  { <<<<0>>, StrValue(<<>>)>>, <<<<6, 120>>, StrValue(<<120>>)>>,
    <<<<7, 120, 121>>, StrValue(<<120, 121>>)>> }
\* The value of a USR_MARSHAL: nil, 2 or [nil].
UsrMarshalValues ==
  { <<<<NIL>>, NoneValue>>, <<<<INT, 7>>, IntValue(TcOfInt(2))>>,
    <<<<ARRAY, 6, NIL>>, ListValue(<<NoneValue>>)>> }

\* The i-th components of a sequence of pairs.
Firsts(ps) == [i \in 1..Len(ps) |-> ps[i][1]]
Seconds(ps) == [i \in 1..Len(ps) |-> ps[i][2]]

InArrayAfterA(stream, value) ==
  <<Header \o <<ARRAY, 7, SYMBOL, 6, 65>> \o stream,
    ListValue(<<StrValue(<<58, 65>>), value>>)>>

WrapperCases ==
  { InArrayAfterA(<<OBJECT>> \o name[1]
                    \o <<IF Len(pairs) = 0 THEN 0 ELSE Len(pairs) + 5>>
                    \o Concat(Firsts(pairs)),
                  Wrap("OBJECT", name[2], Concat(Seconds(pairs)))) :
      name \in ClassNames, pairs \in SeqsUpTo(ObjectPairs, 2) }
  \cup
  { InArrayAfterA(<<USERDEF>> \o name[1] \o payload[1],
                  Wrap("USERDEF", name[2], <<payload[2]>>)) :
      name \in ClassNames, payload \in UserdefPayloads }
  \cup
  { InArrayAfterA(<<USR_MARSHAL>> \o name[1] \o value[1],
                  Wrap("USR_MARSHAL", name[2], <<value[2]>>)) :
      name \in ClassNames, value \in UsrMarshalValues }
WrapperFamily == {case[1] : case \in WrapperCases}

\* C16: an OBJECT with class-name symbol s and pair-count n >= 0 yields a
\* wrapper of kind OBJECT whose tag is the text of s, resolved through the
\* table when s is a link, with exactly 2*n children, key and value in
\* turn in stream order; a USERDEF and a USR_MARSHAL wrapper have exactly
\* one child.
WrapperShapeKept ==
  /\ \A case \in WrapperCases :
       data = case[1] => (pc # "raised" /\ (pc = "done" => retval = case[2]))
  /\ (pc \in {"ret", "done"} /\ retval.t = "wrap") =>
       /\ retval.ruby_type \in {"USERDEF", "USR_MARSHAL"} => Len(retval.children) = 1
       /\ retval.ruby_type = "OBJECT" => Len(retval.children) % 2 = 0

\* [:A, object of class :A with :x => 2 and :A => nil] has been decoded.
ObjectWithTwoPairsDecoded ==
  /\ data = Header \o <<ARRAY, 7, SYMBOL, 6, 65, OBJECT, SYMBOL_LINK, 0, 7,
                        SYMBOL, 6, 120, INT, 7, SYMBOL_LINK, 0, NIL>>
  /\ pc = "done"
  /\ retval.items[2] =
       Wrap("OBJECT", StrValue(<<58, 65>>),
            <<StrValue(<<58, 120>>), IntValue(TcOfInt(2)), StrValue(<<58, 65>>),
              NoneValue>>)

\* An alphabet whose lower-case letters start one place late.
B64IndexShifted(ch) ==
  IF ch \in 65..90 THEN ch - 65
  ELSE IF ch \in 97..122 THEN ch - 70
  ELSE IF ch \in 48..57 THEN ch + 4
  ELSE IF ch = 43 THEN 62
  ELSE IF ch = 47 THEN 63
  ELSE -1

\* base64.b64decode of load_b64: the place of a character in the alphabet
\* A-Z a-z 0-9 + /, or -1 for a character outside it.
B64Index(ch) ==
  IF ch \in 65..90 THEN ch - 65
  ELSE IF ch \in 97..122 THEN ch - 71
  ELSE IF ch \in 48..57 THEN ch + 4
  ELSE IF ch = 43 THEN 62
  ELSE IF ch = 47 THEN 63
  ELSE -1

\* The bytes carried by the two or three sextets of a padded group.
B64Flush(quad) ==
  IF Len(quad) = 2 THEN <<quad[1] * 4 + quad[2] \div 16>>
  ELSE <<quad[1] * 4 + quad[2] \div 16, (quad[2] % 16) * 16 + quad[3] \div 4>>

\* The decoder from character i on: characters outside the alphabet are
\* discarded, four sextets give three bytes, padding that completes a group
\* ends the data, and a group left open at the end is an error.
RECURSIVE B64Walk(_, _, _, _, _)
B64Walk(text, i, quad, pads, out) ==
  IF i > Len(text)
  THEN IF quad = <<>> THEN [ok |-> TRUE, value |-> out]
       ELSE [ok |-> FALSE, value |-> <<>>]
  ELSE IF text[i] = 61
  THEN IF Len(quad) >= 2 /\ Len(quad) + pads + 1 >= 4
       THEN [ok |-> TRUE, value |-> out \o B64Flush(quad)]
       ELSE B64Walk(text, i + 1, quad, pads + 1, out)
  ELSE IF B64Index(text[i]) = -1
  THEN B64Walk(text, i + 1, quad, pads, out)
  ELSE IF Len(quad) = 3
  THEN B64Walk(text, i + 1, <<>>, 0,
               out \o <<quad[1] * 4 + quad[2] \div 16,
                        (quad[2] % 16) * 16 + quad[3] \div 4,
                        (quad[3] % 4) * 64 + B64Index(text[i])>>)
  ELSE B64Walk(text, i + 1, Append(quad, B64Index(text[i])), 0, out)

B64Decode(text) == B64Walk(text, 1, <<>>, 0, <<>>)

\* The base64 literals of the tests, as character codes.
\* "BAhpBg=="
KnownIntegerB64 ==
  <<66, 65, 104, 112, 66, 103, 61, 61>>
\* "BAhJIgthemVydHkGOgZFVA=="
KnownStringB64 ==
  <<66, 65, 104, 74, 73, 103, 116, 104, 101, 109, 86, 121, 100, 72, 107, 71, 79, 103, 90, 70, 86, 65, 61, 61>>
\* "BAg6C2F6ZXJ0eQ=="
KnownSymbolB64 ==
  <<66, 65, 103, 54, 67, 50, 70, 54, 90, 88, 74, 48, 101, 81, 61, 61>>
\* "BAh7BkkiB2F6BjoGRVRJIgdxcwY7AFQ="
KnownHashB64 ==
  <<66, 65, 104, 55, 66, 107, 107, 105, 66, 50, 70, 54, 66, 106, 111, 71, 82, 86, 82, 74, 73, 103, 100, 120, 99, 119, 89, 55, 65, 70, 81, 61>>
\* The integer literal on two lines, without its padding, and cut inside
\* a group.
B64Texts ==
  { KnownIntegerB64, KnownStringB64, KnownSymbolB64, KnownHashB64,
    <<66, 65, 104, 112, 10, 66, 103, 61, 61>>,
    <<66, 65, 104, 112, 66, 103>>,
    <<66, 65, 104, 112, 66>> }
\* load_b64: the buffers that b64decode hands to the decoder.
B64Family == {B64Decode(text).value : text \in {t \in B64Texts : B64Decode(t).ok}}


\* The documented literals: base64 text, bytes and value.
KnownLiterals ==
  { [text |-> KnownIntegerB64, bytes |-> KnownInteger,
     value |-> IntValue(TcOfInt(1))],
    [text |-> KnownStringB64, bytes |-> KnownString,
     value |-> StrValue(<<97, 122, 101, 114, 116, 121>>)],
    [text |-> KnownSymbolB64, bytes |-> KnownSymbol,
     value |-> StrValue(<<58, 97, 122, 101, 114, 116, 121>>)],
    [text |-> KnownHashB64, bytes |-> KnownHash,
     value |-> DictValue(<<<<StrValue(<<97, 122>>), StrValue(<<113, 115>>)>>>>)] }

\* C17: the documented literals decode to the documented values: the base64
\* text of each is the documented bytes, and the bytes decode to integer 1,
\* the string "azerty", the symbol ":azerty" and the one-entry mapping
\* {"az": "qs"}.
KnownLiteralsDecoded ==
  \A known \in KnownLiterals :
    /\ B64Decode(known.text) = [ok |-> TRUE, value |-> known.bytes]
    /\ data = B64Decode(known.text).value =>
         (pc # "raised" /\ (pc = "done" => retval = known.value))

\* The base64 text of the mapping literal has been decoded to {"az": "qs"}.
KnownHashDecoded ==
  /\ data = B64Decode(KnownHashB64).value
  /\ pc = "done"
  /\ retval.t = "dict"
  /\ Len(retval.pairs) = 1

\* BIGNUM productions: the sign bytes '+', '-', 0 and 255, the length
\* prefixes 0, 1 and 2 in their one-byte forms and 1 and 2 in longer forms,
\* every payload of 2 * length bytes over 0, 1 and 255, alone or followed by
\* one more byte.
BignumSigns == {43, 45, 0, 255}
BignumLengths ==
  { [packed |-> <<0>>, length |-> 0], [packed |-> <<6>>, length |-> 1],
    [packed |-> <<7>>, length |-> 2], [packed |-> <<1, 1>>, length |-> 1],
    [packed |-> <<2, 2, 0>>, length |-> 2] }
BignumCases ==
  { [sign |-> sign, prefix |-> prefix, payload |-> payload, rest |-> rest] :
      sign \in BignumSigns, prefix \in BignumLengths,
      payload \in UNION {[1..2 * l.length -> {0, 1, 255}] : l \in BignumLengths},
      rest \in {<<>>, <<NIL>>} }
BignumStream(case) ==
  Header \o <<BIGNUM, case.sign>> \o case.prefix.packed \o case.payload \o case.rest
BignumFamily ==
  {BignumStream(case) : case \in {c \in BignumCases :
                                    Len(c.payload) = 2 * c.prefix.length}}

\* Byte i (from 1) of a payload, 0 beyond its end.
PayloadByte(payload, i) == IF i <= Len(payload) THEN payload[i] ELSE 0

-----------------------------------------------------------------------------
(* MessageVerifier: signed messages "data--signature".  A text is the      *)
(* sequence of its code points, a byte string the sequence of its bytes.   *)

\* str.encode('utf-8'): strict, a surrogate code point raises
\* UnicodeEncodeError.
Utf8EncodeOne(cp) ==
  IF cp < 128 THEN <<cp>>
  ELSE IF cp < 2048 THEN <<192 + cp \div 64, 128 + (cp % 64)>>
  ELSE IF cp < 65536
  THEN <<224 + cp \div 4096, 128 + ((cp \div 64) % 64), 128 + (cp % 64)>>
  ELSE <<240 + cp \div 262144, 128 + ((cp \div 4096) % 64),
         128 + ((cp \div 64) % 64), 128 + (cp % 64)>>

IsSurrogate(cp) == cp >= 55296 /\ cp <= 57343

Utf8Encode(text) ==
  IF \E i \in 1..Len(text) : IsSurrogate(text[i])
  THEN [ok |-> FALSE, bytes |-> <<>>]
  ELSE IF \A i \in 1..Len(text) : text[i] < 128
  THEN [ok |-> TRUE, bytes |-> text]
  ELSE [ok |-> TRUE, bytes |-> Concat([i \in 1..Len(text) |-> Utf8EncodeOne(text[i])])]

\* The character of a place in the base64 alphabet.
B64Char(n) ==
  IF n < 26 THEN 65 + n
  ELSE IF n < 52 THEN 71 + n
  ELSE IF n < 62 THEN n - 4
  ELSE IF n = 62 THEN 43
  ELSE 47

\* base64.b64encode(data).decode('utf-8'): three bytes give four characters,
\* a last group of one or two bytes is padded with '='.
RECURSIVE B64EncodeFrom(_, _)
B64EncodeFrom(bytes, i) ==
  LET left == Len(bytes) - i + 1
      b1 == bytes[i]
      b2 == IF left >= 2 THEN bytes[i + 1] ELSE 0
      b3 == IF left >= 3 THEN bytes[i + 2] ELSE 0
  IN IF left <= 0 THEN <<>>
     ELSE <<B64Char(b1 \div 4),
            B64Char((b1 % 4) * 16 + b2 \div 16),
            IF left >= 2 THEN B64Char((b2 % 16) * 4 + b3 \div 64) ELSE 61,
            IF left >= 3 THEN B64Char(b3 % 64) ELSE 61>>
          \o B64EncodeFrom(bytes, i + 3)

\* MessageVerifier._encode_bytes
EncodeBytes(bytes) == B64EncodeFrom(bytes, 1)

\* MessageVerifier._encode_string
EncodeString(text) ==
  LET encoded == Utf8Encode(text)
  IN IF encoded.ok THEN [ok |-> TRUE, err |-> "", text |-> EncodeBytes(encoded.bytes)]
     ELSE [ok |-> FALSE, err |-> "UnicodeEncodeError", text |-> <<>>]

\* base64.b64decode of whole groups of four characters of the alphabet, the
\* last one closed by up to two '=': byte k comes from its own group.
B64Aligned(text) ==
  /\ Len(text) % 4 = 0
  /\ \A i \in 1..Len(text) :
       \/ B64Index(text[i]) # -1
       \/ /\ text[i] = 61
          /\ i > Len(text) - 2
          /\ i > 2
          /\ \A k \in i..Len(text) : text[k] = 61

B64DecodeAligned(text) ==
  LET pads == Cardinality({i \in 1..Len(text) : text[i] = 61})
      Sextet(i) == IF text[i] = 61 THEN 0 ELSE B64Index(text[i])
  IN [k \in 1..(Len(text) \div 4) * 3 - pads |->
        LET g == 4 * ((k - 1) \div 3)
        IN CASE k % 3 = 1 -> Sextet(g + 1) * 4 + Sextet(g + 2) \div 16
             [] k % 3 = 2 -> (Sextet(g + 2) % 16) * 16 + Sextet(g + 3) \div 4
             [] OTHER -> (Sextet(g + 3) % 4) * 64 + Sextet(g + 4)]

\* bytes.decode('utf-8'): bytes below 128 are their own characters.
Utf8DecodeText(bytes) ==
  IF \A i \in 1..Len(bytes) : bytes[i] < 128 THEN [ok |-> TRUE, cps |-> bytes]
  ELSE Utf8Decode(bytes)

\* MessageVerifier._decode_string and _decode_bytes
DecodeString(text) ==
  LET Decoded(decoded) ==
        IF decoded.ok THEN [ok |-> TRUE, err |-> "", text |-> decoded.cps]
        ELSE [ok |-> FALSE, err |-> "UnicodeDecodeError", text |-> <<>>]
      Unpacked(bytes) ==
        IF bytes.ok THEN Decoded(Utf8DecodeText(bytes.value))
        ELSE [ok |-> FALSE, err |-> "binascii.Error", text |-> <<>>]
      AsBytes(encoded) ==
        IF ~encoded.ok
        THEN [ok |-> FALSE, err |-> "UnicodeEncodeError", text |-> <<>>]
        ELSE IF B64Aligned(encoded.bytes)
        THEN Unpacked([ok |-> TRUE, value |-> B64DecodeAligned(encoded.bytes)])
        ELSE Unpacked(B64Decode(encoded.bytes))
  IN AsBytes(Utf8Encode(text))

\* The lower-case hexadecimal digit of n in 0..15.
HexDigit(n) == IF n < 10 THEN 48 + n ELSE 87 + n

\* bytes.hex()
Hex(bytes) ==
  [i \in 1..2 * Len(bytes) |->
     IF i % 2 = 1 THEN HexDigit(bytes[(i + 1) \div 2] \div 16)
     ELSE HexDigit(bytes[i \div 2] % 16)]

\* The decimal digits of n >= 0.
RECURSIVE Digits(_)
Digits(n) == IF n < 10 THEN <<48 + n>> ELSE Digits(n \div 10) \o <<48 + (n % 10)>>

\* MessageVerifier._serialize: str(value) of None, a bool, an int or a str.
Serialize(value) ==
  CASE value.t = "none" -> <<78, 111, 110, 101>>
    [] value.t = "bool" -> IF value.b THEN <<84, 114, 117, 101>>
                           ELSE <<70, 97, 108, 115, 101>>
    [] value.t = "int" -> IF TcIsNeg(value) THEN <<45>> \o Digits(-TcToInt(value))
                          ELSE Digits(TcToInt(value))
    [] value.t = "str" -> value.v

\* json.dumps of one character of a string (ensure_ascii): the short
\* escapes, \uXXXX for what is not printable ASCII, a surrogate pair above
\* U+FFFF.
JsonU4(n) ==
  <<92, 117, HexDigit(n \div 4096), HexDigit((n \div 256) % 16),
    HexDigit((n \div 16) % 16), HexDigit(n % 16)>>

JsonEscape(cp) ==
  CASE cp = 34 -> <<92, 34>>
    [] cp = 92 -> <<92, 92>>
    [] cp = 10 -> <<92, 110>>
    [] cp = 13 -> <<92, 114>>
    [] cp = 9 -> <<92, 116>>
    [] cp = 8 -> <<92, 98>>
    [] cp = 12 -> <<92, 102>>
    [] OTHER ->
         IF cp >= 32 /\ cp <= 126 THEN <<cp>>
         ELSE IF cp < 65536 THEN JsonU4(cp)
         ELSE JsonU4(55296 + ((cp - 65536) \div 1024))
                \o JsonU4(56320 + ((cp - 65536) % 1024))

\* json.dumps of a string
JsonString(text) ==
  <<34>> \o Concat([i \in 1..Len(text) |-> JsonEscape(text[i])]) \o <<34>>

\* {"_rails":{"message":
EnvelopeHead ==
  <<123, 34, 95, 114, 97, 105, 108, 115, 34, 58, 123, 34, 109, 101, 115,
    115, 97, 103, 101, 34, 58>>
\* ,"exp":null,"pur":
EnvelopeMiddle ==
  <<44, 34, 101, 120, 112, 34, 58, 110, 117, 108, 108, 44, 34, 112, 117,
    114, 34, 58>>
\* }}
EnvelopeTail == <<125, 125>>

\* Metadata.wrap(message, purpose).to_json()
ToJson(message, purpose) ==
  LET encoded == EncodeString(message)
  IN IF ~encoded.ok THEN [ok |-> FALSE, err |-> encoded.err, text |-> <<>>]
     ELSE [ok |-> TRUE, err |-> "",
           text |-> EnvelopeHead \o JsonString(encoded.text) \o EnvelopeMiddle
                      \o JsonString(purpose) \o EnvelopeTail]

\* The value of a hexadecimal digit, -1 for another character.
HexValue(ch) ==
  IF ch \in 48..57 THEN ch - 48
  ELSE IF ch \in 97..102 THEN ch - 87
  ELSE IF ch \in 65..70 THEN ch - 55
  ELSE -1

\* The code unit of the escape \uXXXX whose 'u' is at place i, -1 when the
\* four digits are not there.
JsonUnit(text, i) ==
  IF i + 4 > Len(text) \/ \E k \in 1..4 : HexValue(text[i + k]) = -1 THEN -1
  ELSE HexValue(text[i + 1]) * 4096 + HexValue(text[i + 2]) * 256
         + HexValue(text[i + 3]) * 16 + HexValue(text[i + 4])

\* The character of a short escape, -1 for an unknown one.
JsonShort(ch) ==
  CASE ch = 34 -> 34 [] ch = 92 -> 92 [] ch = 47 -> 47 [] ch = 98 -> 8
    [] ch = 102 -> 12 [] ch = 110 -> 10 [] ch = 114 -> 13 [] ch = 116 -> 9
    [] OTHER -> -1

\* json.loads of a string whose opening quote is before place i: the text
\* up to the closing quote, a high and a low surrogate escape in a row
\* taken as one character.
RECURSIVE JsonScanString(_, _, _)
JsonScanString(text, i, out) ==
  IF i > Len(text) THEN [ok |-> FALSE, text |-> <<>>, next |-> i]
  ELSE IF text[i] = 34 THEN [ok |-> TRUE, text |-> out, next |-> i + 1]
  ELSE IF text[i] < 32 THEN [ok |-> FALSE, text |-> <<>>, next |-> i]
  ELSE IF text[i] # 92 THEN JsonScanString(text, i + 1, Append(out, text[i]))
  ELSE IF i + 1 > Len(text) THEN [ok |-> FALSE, text |-> <<>>, next |-> i]
  ELSE IF text[i + 1] # 117
  THEN IF JsonShort(text[i + 1]) = -1 THEN [ok |-> FALSE, text |-> <<>>, next |-> i]
       ELSE JsonScanString(text, i + 2, Append(out, JsonShort(text[i + 1])))
  ELSE IF JsonUnit(text, i + 1) = -1 THEN [ok |-> FALSE, text |-> <<>>, next |-> i]
  ELSE IF /\ JsonUnit(text, i + 1) \in 55296..56319
          /\ i + 7 <= Len(text)
          /\ text[i + 6] = 92
          /\ text[i + 7] = 117
          /\ JsonUnit(text, i + 7) \in 56320..57343
  THEN JsonScanString(text, i + 12,
                      Append(out, 65536 + (JsonUnit(text, i + 1) - 55296) * 1024
                                    + (JsonUnit(text, i + 7) - 56320)))
  ELSE JsonScanString(text, i + 6, Append(out, JsonUnit(text, i + 1)))

\* text[i..] starts with part
StartsAt(text, i, part) ==
  i + Len(part) - 1 <= Len(text) /\ SubSeq(text, i, i + Len(part) - 1) = part

\* Metadata.from_json on an envelope as to_json writes it: the message is
\* decoded from base64, the purpose is taken as read.  json.loads of any
\* other text is not modelled ("OutOfModel").
FromJson(text) ==
  LET Failed(err) == [ok |-> FALSE, err |-> err, message |-> <<>>, purpose |-> <<>>]
      Built(message, pur) ==
        IF ~message.ok THEN Failed(message.err)
        ELSE [ok |-> TRUE, err |-> "", message |-> message.text, purpose |-> pur.text]
      Closed(field, pur) ==
        IF ~pur.ok \/ SubSeq(text, pur.next, Len(text)) # EnvelopeTail
        THEN Failed("OutOfModel")
        ELSE Built(DecodeString(field.text), pur)
      Opened(field) ==
        IF ~field.ok \/ ~StartsAt(text, field.next, EnvelopeMiddle \o <<34>>)
        THEN Failed("OutOfModel")
        ELSE Closed(field, JsonScanString(text, field.next + Len(EnvelopeMiddle) + 1, <<>>))
  IN IF ~StartsAt(text, 1, EnvelopeHead \o <<34>>) THEN Failed("OutOfModel")
     ELSE Opened(JsonScanString(text, Len(EnvelopeHead) + 2, <<>>))

\* hashlib.sha256().block_size
BlockSize == 64

\* hmac.new(secret, data, hashlib.sha256).digest(): the key is padded with
\* zero bytes to the block size (a longer key would be hashed first: every
\* secret here is shorter).  SHA-256 itself is not computed: the digest is
\* the padded key followed by the data, which keeps HMAC's one property the
\* verifier relies on, that different (padded key, data) pairs give
\* different digests.
HmacDigest(secret, bytes) ==
  secret \o [i \in 1..BlockSize - Len(secret) |-> 0] \o bytes

\* MessageVerifier._generate_digest_string and _generate_digest_bytes
GenerateDigestString(secret, text) ==
  LET encoded == Utf8Encode(text)
  IN IF encoded.ok
     THEN [ok |-> TRUE, err |-> "", text |-> Hex(HmacDigest(secret, encoded.bytes))]
     ELSE [ok |-> FALSE, err |-> "UnicodeEncodeError", text |-> <<>>]

\* "--"
Separator == <<45, 45>>

\* MessageVerifier.generate
GenerateText(secret, value, purpose) ==
  LET Signed(encoded, signature) ==
        IF ~signature.ok THEN [ok |-> FALSE, err |-> signature.err, text |-> <<>>]
        ELSE [ok |-> TRUE, err |-> "",
              text |-> encoded.text \o Separator \o signature.text]
      Packed(encoded) ==
        IF ~encoded.ok THEN [ok |-> FALSE, err |-> encoded.err, text |-> <<>>]
        ELSE Signed(encoded, GenerateDigestString(secret, encoded.text))
      Wrapped(json) ==
        IF ~json.ok THEN [ok |-> FALSE, err |-> json.err, text |-> <<>>]
        ELSE Packed(EncodeString(json.text))
  IN Wrapped(ToJson(Serialize(value), purpose))

\* signed_message.split("--"): the separators are found from the left, so
\* in a run of '-' they start at every second place of the run.
SeparatorStarts(text) ==
  { i \in 1..Len(text) - 1 :
      /\ StartsAt(text, i, Separator)
      /\ LET run == CHOOSE j \in 1..i :
                      /\ \A k \in j..i : text[k] = 45
                      /\ j = 1 \/ text[j - 1] # 45
         IN (i - run) % 2 = 0 }

\* The parts between the separators.
SplitOnSeparator(text) ==
  LET starts == SeparatorStarts(text)
      Start(k) == CHOOSE i \in starts : Cardinality({j \in starts : j < i}) = k - 1
  IN [k \in 1..Cardinality(starts) + 1 |->
        SubSeq(text,
               IF k = 1 THEN 1 ELSE Start(k - 1) + 2,
               IF k = Cardinality(starts) + 1 THEN Len(text) ELSE Start(k) - 1)]

\* Metadata.verify_purpose
VerifyPurpose(metadata, purpose) ==
  IF metadata.purpose = purpose THEN StrValue(metadata.message) ELSE NoneValue

\* MessageVerifier.verify, with Metadata.verify
VerifyText(secret, signed_message, purpose) ==
  LET Parsed(metadata) ==
        IF ~metadata.ok THEN [ok |-> FALSE, err |-> metadata.err, value |-> NoneValue]
        ELSE [ok |-> TRUE, err |-> "", value |-> VerifyPurpose(metadata, purpose)]
      Unpacked(json) ==
        IF ~json.ok THEN [ok |-> FALSE, err |-> json.err, value |-> NoneValue]
        ELSE Parsed(FromJson(json.text))
      Checked(splits, expected_digest) ==
        IF ~expected_digest.ok
        THEN [ok |-> FALSE, err |-> expected_digest.err, value |-> NoneValue]
        ELSE IF splits[2] # expected_digest.text
        THEN [ok |-> TRUE, err |-> "", value |-> NoneValue]
        ELSE Unpacked(DecodeString(splits[1]))
      Parted(splits) ==
        IF Len(splits) # 2 THEN [ok |-> TRUE, err |-> "", value |-> NoneValue]
        ELSE Checked(splits, GenerateDigestString(secret, splits[1]))
  IN Parted(SplitOnSeparator(signed_message))

\* The secrets b"k", b"k\x00" and b"s".
Secrets == {<<107>>, <<107, 0>>, <<115>>}
\* The values "v", 42, True and a text of one lone surrogate.
Values ==
  { StrValue(<<118>>), IntValue(TcOfInt(42)), BoolValue(TRUE), StrValue(<<55296>>) }
\* The purposes "p", "q--", U+1F600 as one character and as its two
\* surrogates.
Purposes == { <<112>>, <<113, 45, 45>>, <<128512>>, <<55357, 56832>> }

\* The last call made on the verifier.
Called(op, ok, err, kind, input, purpose, value) ==
  [op |-> op, ok |-> ok, err |-> err, kind |-> kind, input |-> input,
   purpose |-> purpose, value |-> value]

\* MessageVerifier.__init__: a verifier with the given secret takes the
\* place of the one in use; the signed message issued before stays in the
\* caller's hands.
NewVerifier ==
  /\ \E secret \in Secrets :
       verifier' = [verifier EXCEPT
                      !.secret = secret,
                      !.last = Called("new", TRUE, "", "", <<>>, <<>>, NoneValue)]
  /\ UNCHANGED <<data, position, symbols, stack, pc, retval, error, dispatches,
                 spelled, lastBytes, calls, generator>>

\* verifier.generate(value, purpose)
Generate ==
  /\ verifier.last.op # "none"
  /\ \E value \in Values, purpose \in Purposes :
       LET Issued(r) ==
             [verifier EXCEPT
                !.issued = IF r.ok
                           THEN <<[text |-> r.text, secret |-> verifier.secret,
                                   value |-> value, purpose |-> purpose]>>
                           ELSE verifier.issued,
                !.last = Called("generate", r.ok, r.err, "", <<>>, purpose,
                                IF r.ok THEN StrValue(r.text) ELSE NoneValue)]
       IN verifier' = Issued(GenerateText(verifier.secret, value, purpose))
  /\ UNCHANGED <<data, position, symbols, stack, pc, retval, error, dispatches,
                 spelled, lastBytes, calls, generator>>

\* The signed messages a caller submits: the issued one as it is ("issued"),
\* its data alone ("bare"), with one more separator and part ("several"),
\* with another last digit in the signature ("resigned"), with another
\* first character in the data ("altered"), and the empty text ("empty").
Submitted ==
  {[kind |-> "empty", text |-> <<>>]}
  \cup
  UNION { LET text == verifier.issued[k].text
              cut == CHOOSE i \in 1..Len(text) : StartsAt(text, i, Separator)
          IN { [kind |-> "issued", text |-> text],
               [kind |-> "bare", text |-> SubSeq(text, 1, cut - 1)],
               [kind |-> "several", text |-> text \o Separator \o <<120>>],
               [kind |-> "resigned",
                text |-> [text EXCEPT ![Len(text)] = IF @ = 48 THEN 49 ELSE 48]],
               [kind |-> "altered",
                text |-> [text EXCEPT ![1] = IF @ = 101 THEN 102 ELSE 101]] } :
            k \in 1..Len(verifier.issued) }

\* verifier.verify(signed_message, purpose)
Verify ==
  /\ verifier.last.op # "none"
  /\ \E submitted \in Submitted, purpose \in Purposes :
       LET Verified(r) ==
             /\ r.err # "OutOfModel"
             /\ verifier' = [verifier EXCEPT
                               !.last = Called("verify", r.ok, r.err, submitted.kind,
                                               submitted.text, purpose, r.value)]
       IN Verified(VerifyText(verifier.secret, submitted.text, purpose))
  /\ UNCHANGED <<data, position, symbols, stack, pc, retval, error, dispatches,
                 spelled, lastBytes, calls, generator>>

NextVerifier ==
  \/ NewVerifier
  \/ Generate
  \/ Verify

\* No decode call is running and no verifier has been constructed.
InitVerifier == Fresh(<<>>)

SpecVerifier == InitVerifier /\ [][NextVerifier]_vars

\* C19: for every secret, value v and purpose p, verify(generate(v, p), p)
\* on a verifier holding the same secret returns str(v); and the text
\* generate returns has the form data--signature with exactly one "--":
\* neither the base64 data nor the hex signature holds a '-'.
RoundTripReturnsValue ==
  /\ verifier.last.op = "generate" =>
       /\ verifier.last.ok
       /\ \E k \in 1..Len(verifier.last.value.v) - 1 :
            {i \in 1..Len(verifier.last.value.v) : verifier.last.value.v[i] = 45}
              = {k, k + 1}
  /\ (/\ verifier.last.op = "verify"
      /\ verifier.last.kind = "issued"
      /\ verifier.issued[1].secret = verifier.secret
      /\ verifier.last.purpose = verifier.issued[1].purpose) =>
       /\ verifier.last.ok
       /\ verifier.last.value = StrValue(Serialize(verifier.issued[1].value))

\* The purpose as the JSON envelope gives it back: a high and a low
\* surrogate in a row are one character.
RECURSIVE StoredPurpose(_)
StoredPurpose(text) ==
  IF Len(text) < 2 THEN text
  ELSE IF text[1] \in 55296..56319 /\ text[2] \in 56320..57343
  THEN <<65536 + (text[1] - 55296) * 1024 + (text[2] - 56320)>>
         \o StoredPurpose(SubSeq(text, 3, Len(text)))
  ELSE <<text[1]>> \o StoredPurpose(Tail(text))

\* C20: verify(s, p) returns a message only if s splits on "--" into
\* exactly two parts data and digest, the digest is the HMAC of data under
\* the verifier's own secret and the purpose stored in the envelope is p;
\* it returns None when the number of parts is not two (no separator,
\* several separators, the empty text), when the digest was made with a
\* different secret, and when the purpose differs.
VerifyOnlyOwnMessages ==
  verifier.last.op = "verify" =>
    /\ verifier.last.value # NoneValue =>
         /\ verifier.last.kind = "issued"
         /\ StoredPurpose(verifier.issued[1].purpose) = verifier.last.purpose
    /\ verifier.last.kind \in {"bare", "several", "empty"} =>
         (verifier.last.ok /\ verifier.last.value = NoneValue)
    /\ (verifier.last.kind = "issued"
        /\ verifier.issued[1].secret # verifier.secret) =>
         (verifier.last.ok /\ verifier.last.value = NoneValue)
    /\ (verifier.last.kind = "issued"
        /\ StoredPurpose(verifier.issued[1].purpose) # verifier.last.purpose) =>
         (verifier.last.ok /\ verifier.last.value = NoneValue)

-----------------------------------------------------------------------------
(* KeyGenerator: PBKDF2 keys, memoized per (salt, key_size) when the       *)
(* generator was built with a cache.  Several threads call generate_key    *)
(* on the one generator; the two "with self._cache_lock" sections are the  *)
(* only places that touch the cache, and each is one step.                 *)

\* The threads that share the generator.
Threads == 1..2

\* str(n) of an int
IntText(n) == IF n < 0 THEN <<45>> \o Digits(0 - n) ELSE Digits(n)

\* f"{salt}|{key_size}"
CacheKeyUnseparated(salt, key_size) == salt \o IntText(key_size)

CacheKey(salt, key_size) == salt \o <<124>> \o IntText(key_size)

\* hashlib.pbkdf2_hmac('sha1', password, salt, iterations, dklen): raises
\* ValueError unless iterations and dklen are at least 1.  The key is the
\* first dklen bytes of a stream fixed by the password (as HMAC pads it
\* with zero bytes to the block size), the salt and the iterations.  SHA-1
\* is not computed: byte i of the stream stands as the tuple of what it
\* depends on, so that different inputs give different keys and a shorter
\* key is the start of a longer one.
Pbkdf2Hmac(password, salt, iterations, dklen) ==
  IF iterations < 1 \/ dklen < 1 THEN [ok |-> FALSE, key |-> <<>>]
  ELSE [ok |-> TRUE,
        key |-> [i \in 1..dklen |->
                   <<password \o [j \in 1..BlockSize - Len(password) |-> 0],
                     salt, iterations, i>>]]

\* KeyGenerator._generate_key: every exception leaves as RuntimeError.
GenerateKeyDirect(secret, iterations, salt, key_size) ==
  LET Derived(r) ==
        IF r.ok THEN [ok |-> TRUE, err |-> "", key |-> r.key]
        ELSE [ok |-> FALSE, err |-> "RuntimeError", key |-> <<>>]
      WithBytes(salt_bytes, password_bytes) ==
        IF ~salt_bytes.ok \/ ~password_bytes.ok
        THEN [ok |-> FALSE, err |-> "RuntimeError", key |-> <<>>]
        ELSE Derived(Pbkdf2Hmac(password_bytes.bytes, salt_bytes.bytes,
                                iterations, key_size \div 8))
  IN WithBytes(Utf8Encode(salt), Utf8Encode(secret))

\* A thread that is in no call of generate_key and has made none.
IdleThread ==
  [pc |-> "idle", salt |-> <<>>, key_size |-> 0, cache_key |-> <<>>,
   key |-> <<>>, ok |-> TRUE, err |-> "", hit |-> FALSE]

\* The secrets "s" and "t", the iteration counts, and the calls
\* generate_key(salt, key_size) the threads make: the salts "a", "a1" and
\* "a|1", a key size below one byte and a salt that is a lone surrogate.
KeySecrets == {<<115>>, <<116>>}

KeyIterations == {1, 1000}

KeyRequests ==
  { [salt |-> <<97>>, key_size |-> 168],
    [salt |-> <<97, 49>>, key_size |-> 68],
    [salt |-> <<97, 124, 49>>, key_size |-> 68],
    [salt |-> <<97>>, key_size |-> 4],
    [salt |-> <<55357>>, key_size |-> 68] }

\* The calls of generate_key started on the generator, over all threads.
MaxKeyCalls == 3

\* KeyGenerator.__init__
NewGenerator ==
  /\ ~generator.built
  /\ \E secret \in KeySecrets, iterations \in KeyIterations,
        with_cache \in BOOLEAN :
       generator' = [secret |-> secret, iterations |-> iterations,
                     with_cache |-> with_cache, built |-> TRUE,
                     key_cache |-> {},
                     threads |-> [t \in Threads |-> IdleThread],
                     started |-> 0]
  /\ UNCHANGED <<data, position, symbols, stack, pc, retval, error, dispatches,
                 spelled, lastBytes, calls, verifier>>

\* The entry of the cache under a key, if there is one.
CacheEntries(key_cache, cache_key) == {e \in key_cache : e.k = cache_key}

\* self._key_cache[cache_key] = key
CachePut(key_cache, cache_key, key) ==
  (key_cache \ CacheEntries(key_cache, cache_key))
    \cup {[k |-> cache_key, v |-> key]}

\* generate_key is called by a thread: with a cache, the cache key is
\* made; without one, the call goes on to _generate_key.
GenerateKeyEnter ==
  /\ generator.built
  /\ generator.started < MaxKeyCalls
  /\ \E t \in Threads, request \in KeyRequests :
       /\ generator.threads[t].pc \in {"idle", "done"}
       /\ generator' =
            [generator EXCEPT
               !.started = @ + 1,
               !.threads[t] =
                  [pc |-> IF generator.with_cache THEN "lookup" ELSE "direct",
                   salt |-> request.salt, key_size |-> request.key_size,
                   cache_key |-> IF generator.with_cache
                                 THEN CacheKey(request.salt, request.key_size)
                                 ELSE <<>>,
                   key |-> <<>>, ok |-> TRUE, err |-> "", hit |-> FALSE]]
  /\ UNCHANGED <<data, position, symbols, stack, pc, retval, error, dispatches,
                 spelled, lastBytes, calls, verifier>>

\* The first locked section: a key found in the cache is returned.
GenerateKeyLookup ==
  /\ \E t \in DOMAIN generator.threads :
       LET self == generator.threads[t]
           found == CacheEntries(generator.key_cache, self.cache_key)
       IN /\ self.pc = "lookup"
          /\ generator' =
               [generator EXCEPT
                  !.threads[t] =
                     IF found # {}
                     THEN [self EXCEPT !.pc = "done", !.hit = TRUE,
                                       !.key = (CHOOSE e \in found : TRUE).v]
                     ELSE [self EXCEPT !.pc = "derive"]]
  /\ UNCHANGED <<data, position, symbols, stack, pc, retval, error, dispatches,
                 spelled, lastBytes, calls, verifier>>

\* Outside the lock: key = self._generate_key(salt, key_size)
GenerateKeyDerive ==
  /\ \E t \in DOMAIN generator.threads :
       LET self == generator.threads[t]
           Derived(r) ==
             [generator EXCEPT
                !.threads[t] =
                   IF r.ok THEN [self EXCEPT !.pc = "store", !.key = r.key]
                   ELSE [self EXCEPT !.pc = "done", !.ok = FALSE, !.err = r.err]]
       IN /\ self.pc = "derive"
          /\ generator' = Derived(GenerateKeyDirect(generator.secret,
                                                    generator.iterations,
                                                    self.salt, self.key_size))
  /\ UNCHANGED <<data, position, symbols, stack, pc, retval, error, dispatches,
                 spelled, lastBytes, calls, verifier>>

\* The second locked section stores the key, and the call returns it.
GenerateKeyStore ==
  /\ \E t \in DOMAIN generator.threads :
       LET self == generator.threads[t]
       IN /\ self.pc = "store"
          /\ generator' =
               [generator EXCEPT
                  !.key_cache = CachePut(@, self.cache_key, self.key),
                  !.threads[t] = [self EXCEPT !.pc = "done"]]
  /\ UNCHANGED <<data, position, symbols, stack, pc, retval, error, dispatches,
                 spelled, lastBytes, calls, verifier>>

\* Without a cache: return self._generate_key(salt, key_size)
GenerateKeyUncached ==
  /\ \E t \in DOMAIN generator.threads :
       LET self == generator.threads[t]
           Derived(r) ==
             [generator EXCEPT
                !.threads[t] = [self EXCEPT !.pc = "done", !.ok = r.ok,
                                            !.err = r.err, !.key = r.key]]
       IN /\ self.pc = "direct"
          /\ generator' = Derived(GenerateKeyDirect(generator.secret,
                                                    generator.iterations,
                                                    self.salt, self.key_size))
  /\ UNCHANGED <<data, position, symbols, stack, pc, retval, error, dispatches,
                 spelled, lastBytes, calls, verifier>>

NextKeys ==
  \/ NewGenerator
  \/ GenerateKeyEnter
  \/ GenerateKeyLookup
  \/ GenerateKeyDerive
  \/ GenerateKeyStore
  \/ GenerateKeyUncached

\* No decode call is running and no generator has been constructed.
InitKeys == Fresh(<<>>)

SpecKeys == InitKeys /\ [][NextKeys]_vars

\* What an uncached generator with the same secret and iterations returns
\* for the call a thread made.
UncachedAnswer(self) ==
  GenerateKeyDirect(generator.secret, generator.iterations,
                    self.salt, self.key_size)

\* Every finished call has the outcome of the derivation of its own pair,
\* every entry of the cache holds the derivation of the one pair that
\* gives its cache key, and no key has two entries.
KeysDerivedFromOwnPair ==
  /\ \A t \in DOMAIN generator.threads :
       generator.threads[t].pc = "done" =>
         /\ generator.threads[t].ok = UncachedAnswer(generator.threads[t]).ok
         /\ generator.threads[t].key = UncachedAnswer(generator.threads[t]).key
  /\ \A e \in generator.key_cache :
       /\ \E r \in KeyRequests : CacheKey(r.salt, r.key_size) = e.k
       /\ \A r \in KeyRequests :
            CacheKey(r.salt, r.key_size) = e.k =>
              /\ UncachedAnswer(r).ok
              /\ e.v = UncachedAnswer(r).key
       /\ CacheEntries(generator.key_cache, e.k) = {e}
  /\ \A r1 \in KeyRequests, r2 \in KeyRequests :
       CacheKey(r1.salt, r1.key_size) = CacheKey(r2.salt, r2.key_size)
         => r1 = r2

\* C21: with a cache, in every interleaving of the generate_key calls of
\* the threads on one KeyGenerator, each call returns the derivation of
\* its own (salt, key_size), the same an uncached generator with that
\* secret and iterations returns; a cache entry never holds a key derived
\* from another pair (the cache key "salt|key_size" is injective, also for
\* a salt with '|'); and an entry that is present never changes.
CacheReturnsOwnDerivation ==
  /\ []KeysDerivedFromOwnPair
  /\ [][\A e \in generator.key_cache : e \in generator'.key_cache]_vars

\* Two threads missed on the same pair, both derived and stored it, and a
\* third call on the pair was answered from the cache.
CacheRaceThenHit ==
  /\ generator.built /\ generator.with_cache
  /\ generator.started = 3
  /\ generator.threads[1].pc = "done" /\ generator.threads[2].pc = "done"
  /\ generator.threads[1].hit /\ ~generator.threads[2].hit
  /\ generator.threads[1].salt = <<97, 124, 49>>
  /\ generator.threads[2].salt = <<97, 124, 49>>
  /\ generator.threads[2].ok
  /\ Cardinality(generator.key_cache) = 1

\* C22: every tag dispatch consumes a byte no dispatch before it consumed,
\* so a load makes at most len(buffer) tag dispatches and nests at most
\* len(buffer) calls of _read: no input, and none with a negative length
\* inside IVARS, ARRAY, HASH, OBJECT or USR_MARSHAL, makes the decoder
\* read a byte again and recurse or loop on it.
DispatchesWithinBuffer ==
  /\ dispatches <= Len(data)
  /\ Len(stack) <= Len(data)

\* C23: a count (ARRAY, HASH, OBJECT, IVARS) or a length (STRING, SYMBOL,
\* USERDEF, BIGNUM) that decodes to a negative number makes the decode
\* fail: load returns no value for a buffer whose first production has a
\* negative prefix.
NegativePrefixRefused ==
  \A lead \in CountLeads \cup LengthLeads :
    ( /\ Len(data) > 2 + Len(lead)
      /\ SubSeq(data, 1, 2 + Len(lead)) = Header \o lead
      /\ ReadInt(2 + Len(lead)).ok
      /\ TcIsNeg(ReadInt(2 + Len(lead)).v) )
    => pc # "done"

\* C24: an attribute key of IVARS is decoded as a symbol or a symbol link:
\* when the byte in the key position is another tag (INT, STRING, ARRAY,
\* NIL), the decode fails with UnexpectedType and load returns no value.
IvarKeyIsSymbolOrLink ==
  ( /\ Len(data) > 5
    /\ SubSeq(data, 1, 5) = Header \o <<IVARS, NIL, 6>>
    /\ data[6] \in {INT, STRING_, ARRAY, NIL} )
  => /\ pc # "done"
     /\ pc = "raised" => error = "UnexpectedType"

-----------------------------------------------------------------------------
(* Symbols spelled where the value is discarded or wrapped.                *)

\* The entry of the symbol table for the one-letter name, and the symbol
\* a SYMBOL production returns for it.
SymbolText(letter) == <<58, letter>>
SymbolOf(letter) == StrValue(SymbolText(letter))

\* Productions that spell symbols in such places, with the value each
\* returns and the symbols it spells in stream order: "a" with the
\* attribute :E => true, nil with the attribute :k => :v, an OBJECT of
\* class :o without pairs, a USERDEF of class :u with no bytes and a
\* USR_MARSHAL of class :m over nil.
DiscardParts ==
  { [stream |-> <<IVARS, STRING_, 6, 97, 6, SYMBOL, 6, 69, TRUE_>>,
     value |-> StrValue(<<97>>), table |-> <<SymbolText(69)>>],
    [stream |-> <<IVARS, NIL, 6, SYMBOL, 6, 107, SYMBOL, 6, 118>>,
     value |-> NoneValue, table |-> <<SymbolText(107), SymbolText(118)>>],
    [stream |-> <<OBJECT, SYMBOL, 6, 111, 0>>,
     value |-> Wrap("OBJECT", SymbolOf(111), <<>>), table |-> <<SymbolText(111)>>],
    [stream |-> <<USERDEF, SYMBOL, 6, 117, 0>>,
     value |-> Wrap("USERDEF", SymbolOf(117), <<StrValue(<<>>)>>),
     table |-> <<SymbolText(117)>>],
    [stream |-> <<USR_MARSHAL, SYMBOL, 6, 109, NIL>>,
     value |-> Wrap("USR_MARSHAL", SymbolOf(109), <<NoneValue>>),
     table |-> <<SymbolText(109)>>] }

\* The array of one or two of them followed by a symbol link, for every
\* index the table then has.
DiscardCases ==
  { [buffer |-> Header \o <<ARRAY, Len(parts) + 6>>
                  \o Concat([i \in 1..Len(parts) |-> parts[i].stream])
                  \o <<SYMBOL_LINK, IF k = 0 THEN 0 ELSE k + 5>>,
     parts |-> parts, link |-> k] :
      parts \in SeqsUpTo(DiscardParts, 2) \ {<<>>}, k \in 0..3 }

DiscardTable(case) == Concat([i \in 1..Len(case.parts) |-> case.parts[i].table])

DiscardFamily ==
  { case.buffer : case \in {c \in DiscardCases : c.link < Len(DiscardTable(c))} }

\* C25: a symbol spelled with a SYMBOL tag inside an IVARS attribute key
\* or value or in the class-name slot of OBJECT, USERDEF or USR_MARSHAL is
\* appended to the symbol table in stream order, and a later SYMBOL_LINK
\* counts it: the link after such productions returns the symbol of its
\* index among all symbols spelled, and in the {"az": "qs"} vector the
\* link 0 in the second string's attributes resolves to the :E of the
\* first.
DiscardedSymbolsCounted ==
  /\ \A case \in DiscardCases :
       (case.link < Len(DiscardTable(case)) /\ data = case.buffer) =>
         /\ pc # "raised"
         /\ pc = "done" =>
              /\ symbols = DiscardTable(case)
              /\ retval = ListValue([i \in 1..Len(case.parts) |-> case.parts[i].value]
                                      \o <<StrValue(DiscardTable(case)[case.link + 1])>>)
  /\ data = KnownHash =>
       /\ pc # "raised"
       /\ position > 21 => symbols = <<SymbolText(69)>>
       /\ pc = "done" =>
            retval = DictValue(<<<<StrValue(<<97, 122>>), StrValue(<<113, 115>>)>>>>)

\* The link 1 after nil with the attribute :k => :v and a USERDEF of class
\* :u has returned :v.
AttributeValueLinked ==
  /\ data = Header \o <<ARRAY, 8, IVARS, NIL, 6, SYMBOL, 6, 107, SYMBOL, 6, 118,
                        USERDEF, SYMBOL, 6, 117, 0, SYMBOL_LINK, 6>>
  /\ pc = "done"
  /\ symbols = <<SymbolText(107), SymbolText(118), SymbolText(117)>>
  /\ retval.items[3] = SymbolOf(118)

-----------------------------------------------------------------------------
(* EXTENDED and LINK.                                                      *)

\* The array [e, :a] whose first element is an EXTENDED tag: the symbol
\* after the tag is the module name as Ruby writes it.  And the arrays
\* [:a, link, nil] for the object links 0, 1, 5, -1, 300 and -300.
ExtendedThenSymbol == Header \o <<ARRAY, 7, EXTENDED, SYMBOL, 6, 97>>

LinkCases ==
  { [buffer |-> Header \o <<ARRAY, 8, SYMBOL, 6, 97, LINK>> \o packed[1] \o <<NIL>>,
     index |-> packed[2]] :
      packed \in { <<<<0>>, 0>>, <<<<6>>, 1>>, <<<<10>>, 5>>, <<<<250>>, -1>>,
                   <<<<2, 44, 1>>, 300>>, <<<<254, 212, 254>>, -300>> } }

FrameFamily ==
  {ExtendedThenSymbol, Header \o <<EXTENDED>>,
   Header \o <<ARRAY, 7, EXTENDED, EXTENDED, SYMBOL, 6, 97>>}
  \cup {case.buffer : case \in LinkCases}

\* The pending _read call is about to dispatch on the tag.
Pending(tag) ==
  /\ pc = "read"
  /\ ReadByte(position).ok
  /\ FromByte(ReadByte(position).b) = tag

\* C26: an EXTENDED production consumes its tag byte and nothing else:
\* the position advances by 1, the symbol table is unchanged and the
\* result is a wrapper of kind EXTENDED without an object and without
\* children, the bytes after the tag being left for the next production.
\* A LINK production leaves the symbol table unchanged and returns a
\* wrapper that carries the index as decoded, whatever its value, with no
\* lookup.
ExtendedAndLinkFrames ==
  /\ [][ /\ Pending("EXTENDED") =>
              /\ pc' = "ret"
              /\ position' = position + 1
              /\ symbols' = symbols
              /\ retval' = Wrap("EXTENDED", NoneValue, <<>>)
         /\ Pending("LINK") =>
              /\ symbols' = symbols
              /\ IF ReadInt(position + 1).ok
                 THEN /\ pc' = "ret"
                      /\ position' = ReadInt(position + 1).pos
                      /\ retval' = Wrap("LINK", IntValue(ReadInt(position + 1).v), <<>>)
                 ELSE /\ pc' = "raised"
                      /\ error' = "UnexpectedEndOfInput" ]_vars
  /\ [](\A case \in LinkCases :
          (data = case.buffer /\ pc = "done") =>
            /\ symbols = <<SymbolText(97)>>
            /\ retval = ListValue(<<SymbolOf(97),
                                    Wrap("LINK", IntValue(TcOfInt(case.index)), <<>>),
                                    NoneValue>>))
  /\ []((data = ExtendedThenSymbol /\ pc = "done") =>
          retval = ListValue(<<Wrap("EXTENDED", NoneValue, <<>>), SymbolOf(97)>>))

\* The array [e, :a] has been decoded: the module name after the EXTENDED
\* tag was read as the second element.
ModuleNameReadAsNextValue ==
  /\ data = ExtendedThenSymbol
  /\ pc = "done"
  /\ position = Len(data)
  /\ symbols = <<SymbolText(97)>>
  /\ retval.items[1] = Wrap("EXTENDED", NoneValue, <<>>)

\* C27: the packed-fixnum decode returns a native-width signed integer:
\* whatever the leading byte and the bytes after it, the value lies in
\* -2^31 .. 2^31 - 1, and the decode fails only by reaching the end of the
\* buffer.
FixnumFitsNativeWidth ==
  IntBuffer =>
    /\ pc = "done" => (retval.t = "int" /\ TcFits32(retval))
    /\ pc = "raised" => error = "UnexpectedEndOfInput"

-----------------------------------------------------------------------------
(* The decode of the well-formed streams.                                  *)

InitTree ==
  \E buffer \in Corpus \cup ArrayFamily \cup HashFamily \cup IvarFamily
                  \cup WrapperFamily \cup B64Family \cup BignumFamily
                  \cup DiscardFamily \cup FrameFamily :
    Fresh(buffer)

SpecTree == InitTree /\ [][Next]_vars

====
